---- MODULE Spec2Model ----
(***************************************************************************)
(* A model of dndme's game-time engine (src/dndme/gametime.py): the        *)
(* Calendar with its configurable months and leap-year rule, its date      *)
(* arithmetic and its day-counting functions; the Almanac that times the   *)
(* solar events of a date; the Clock.  And of its combat tracker: the      *)
(* TurnManager (src/initiative.py), the Combatant (src/models.py) and the  *)
(* Combat the shell's commands act on (src/shell.py).                      *)
(*                                                                         *)
(* Python strings are sequences of one-character strings, so that          *)
(* str.lower() is computed and not assumed.  None is the empty tuple and   *)
(* a given optional argument v is the one-element tuple <<v>>.             *)
(***************************************************************************)
EXTENDS Integers, Sequences, FiniteSets, TLC

VARIABLES cfg, day, month, year, clock, combat, tm, target, call, ret

vars == <<cfg, day, month, year, clock, combat, tm, target, call, ret>>

----------------------------------------------------------------------------
(* Bounds of the model *)

\* years of the model are -YearSpan .. YearSpan: year 0, negative years, leap
\* years other than 0
YearSpan == 2

\* adjust_date is called with offsets -MaxOffset .. MaxOffset (more than a year)
MaxOffset == 9

Years == (0 - YearSpan)..YearSpan

Offsets == (0 - MaxOffset)..MaxOffset

----------------------------------------------------------------------------
(* Python values *)

None == <<>>

Some(v) == <<v>>

\* str.lower() on one character
LowerChar(c) ==
    CASE c = "A" -> "a" [] c = "B" -> "b" [] c = "C" -> "c" [] c = "D" -> "d"
      [] c = "E" -> "e" [] c = "F" -> "f" [] c = "G" -> "g" [] c = "H" -> "h"
      [] c = "I" -> "i" [] c = "J" -> "j" [] c = "K" -> "k" [] c = "L" -> "l"
      [] c = "M" -> "m" [] c = "N" -> "n" [] c = "O" -> "o" [] c = "P" -> "p"
      [] c = "Q" -> "q" [] c = "R" -> "r" [] c = "S" -> "s" [] c = "T" -> "t"
      [] c = "U" -> "u" [] c = "V" -> "v" [] c = "W" -> "w" [] c = "X" -> "x"
      [] c = "Y" -> "y" [] c = "Z" -> "z" [] OTHER -> c

\* str.lower()
Lower(s) == [i \in 1..Len(s) |-> LowerChar(s[i])]

\* the outcome of a call: a returned value or a raised exception
Return(type, value) == [kind |-> "return", type |-> type, value |-> value]

Raise(exc) == [kind |-> "raise", type |-> exc, value |-> None]

ReturnNone == Return("None", None)

\* the literal both set_date and day_of_year return for an invalid date
LolNope == Return("str", <<"l","o","l"," ","n","o","p","e">>)

----------------------------------------------------------------------------
(* Clock *)

\* Clock.__init__: the day length and the time of day
Clock(hours_in_day, minutes_in_hour, hour, minute) ==
    [hours_in_day |-> hours_in_day, minutes_in_hour |-> minutes_in_hour,
     hour |-> hour, minute |-> minute]

\* adjust_time as it would be with a remainder that keeps the sign of the
\* dividend (C's %, not Python's)
adjust_time_truncating(k, hours, minutes) ==
    LET Rem(a, b) == IF a >= 0 THEN a % b ELSE 0 - ((0 - a) % b)
        new_minute == Rem(k.minute + minutes, k.minutes_in_hour)
        new_hour == Rem((k.hour + hours)
                          + ((k.minute + minutes) \div k.minutes_in_hour),
                        k.hours_in_day)
    IN [k EXCEPT !.hour = new_hour, !.minute = new_minute]

\* adjust_time as it would be if the minutes did not carry into the hour
adjust_time_no_carry(k, hours, minutes) ==
    [k EXCEPT !.hour = (k.hour + hours) % k.hours_in_day,
              !.minute = (k.minute + minutes) % k.minutes_in_hour]

\* Clock.adjust_time: the Clock after the call.  Python's // and % round
\* towards minus infinity, as TLA+'s \div and % do.
adjust_time(k, hours, minutes) ==
    LET new_minute == (k.minute + minutes) % k.minutes_in_hour
        new_hour == ((k.hour + hours)
                       + ((k.minute + minutes) \div k.minutes_in_hour))
                    % k.hours_in_day
    IN [k EXCEPT !.hour = new_hour, !.minute = new_minute]

----------------------------------------------------------------------------
(* Calendar configurations (cal_data).  months is an ordered mapping: keys  *)
(* holds the month keys in configured order, months the entry of each key. *)
(* A leap_year_rule "year % d == 0" is the record [divisor |-> d]; a       *)
(* configuration without a rule has None.                                  *)

\* three short months, names that are the capitalised keys, a leap day in feb
\* under the rule "year % 2 == 0"
CalShort ==
    [ keys |-> << <<"j","a","n">>, <<"f","e","b">>, <<"m","a","r">> >>,
      months |->
        ( <<"j","a","n">> :> [name |-> <<"J","a","n">>, days |-> 3] ) @@
        ( <<"f","e","b">> :> [name |-> <<"F","e","b">>, days |-> 2,
                              leap_year_days |-> 3] ) @@
        ( <<"m","a","r">> :> [name |-> <<"M","a","r">>, days |-> 2] ),
      leap_year_rule |-> Some([divisor |-> 2]),
      default_day |-> 1,
      default_month |-> <<"J","a","n">>,
      default_year |-> 1 ]

\* a calendar with a festival day whose display name is not its key, and with
\* no leap-year rule (its leap_year_days is never used)
CalFeast ==
    [ keys |-> << <<"h","a","m">>, <<"m","i","d">>, <<"f","e","a","s","t">> >>,
      months |->
        ( <<"h","a","m">> :> [name |-> <<"H","a","m">>, days |-> 3] ) @@
        ( <<"m","i","d">> :> [name |-> <<"M","i","d">>, days |-> 1,
                              leap_year_days |-> 2] ) @@
        ( <<"f","e","a","s","t">> :>
              [name |-> <<"M","o","o","n"," ","F","e","a","s","t">>, days |-> 2] ),
      leap_year_rule |-> None,
      default_day |-> 1,
      default_month |-> <<"H","a","m">>,
      default_year |-> 1 ]

Configs == {CalShort, CalFeast}

\* the fields of cal_data the Almanac reads, added to a calendar: the day
\* length, the days of a solar revolution, the axial tilt in tenths of a
\* degree, the winter solstice
WithSky(c, hours_in_day, minutes_in_hour, solar_days_in_year, ws_month, ws_day) ==
    [hours_in_day |-> hours_in_day,
     minutes_in_hour |-> minutes_in_hour,
     solar_days_in_year |-> solar_days_in_year,
     axial_tilt |-> 235,
     seasons |-> [winter_solstice |-> [month |-> ws_month, day |-> ws_day]]] @@ c

\* days of 24 hours of 60 minutes, the winter solstice in the last month of
\* the year
SkyEarthly == WithSky(CalShort, 24, 60, 8, <<"m","a","r">>, 1)

\* a short day of 10 hours of 20 minutes, the winter solstice in the middle
\* month of the year
SkyShortDay == WithSky(CalShort, 10, 20, 8, <<"f","e","b">>, 2)

\* a day of 25 hours of 61 minutes (noon at 12.5 hours), the winter solstice
\* in the first month of the year
SkyFeast == WithSky(CalFeast, 25, 61, 6, <<"h","a","m">>, 2)

SkyConfigs == {SkyEarthly, SkyShortDay, SkyFeast}

\* month in self.cal_data['months']
HasMonth(c, key) == key \in DOMAIN c.months

\* dict.get(field, default) on a month entry
GetLeapYearDays(m, default) ==
    IF "leap_year_days" \in DOMAIN m THEN m.leap_year_days ELSE default

----------------------------------------------------------------------------
(* Calendar: the functions that read the configuration *)

\* Calendar.is_leap_year: no rule, no leap years; else the rule with the year
\* substituted, evaluated (Python's % has the sign of the divisor, as TLA+'s)
is_leap_year(c, y) ==
    IF c.leap_year_rule = None THEN FALSE
    ELSE y % c.leap_year_rule[1].divisor = 0

\* days_in_year as it would be without the leap-year branch
days_in_year_no_leap(c, y) ==
    LET RECURSIVE Sum(_)
        Sum(i) == IF i = 0 THEN 0
                  ELSE Sum(i - 1) + c.months[c.keys[i]].days
    IN Sum(Len(c.keys))

\* Calendar.days_in_year: the loop over cal_data['months'].values()
days_in_year(c, y) ==
    LET RECURSIVE Sum(_)
        Sum(i) == IF i = 0 THEN 0
                  ELSE LET m == c.months[c.keys[i]]
                       IN Sum(i - 1) + (IF is_leap_year(c, y)
                                          THEN GetLeapYearDays(m, m.days)
                                          ELSE m.days)
    IN Sum(Len(c.keys))

\* Calendar.days_in_month raises KeyError for a month that is no key
days_in_month_raises(c, m) == ~HasMonth(c, Lower(m))

\* days_in_month as it would be without month.lower(): a month that is not
\* spelled as its key has no entry
days_in_month_case_sensitive(c, m, y) ==
    IF ~HasMonth(c, m) THEN 0
    ELSE LET days == c.months[m].days
         IN IF is_leap_year(c, y)
              THEN GetLeapYearDays(c.months[m], days)
              ELSE days

\* Calendar.days_in_month, for a month whose lower() is a key
days_in_month(c, m, y) ==
    LET key == Lower(m)
        days == c.months[key].days
    IN IF is_leap_year(c, y)
         THEN GetLeapYearDays(c.months[key], days)
         ELSE days

\* Calendar._date_is_valid
date_is_valid(c, d, m, y) ==
    IF ~HasMonth(c, Lower(m)) THEN FALSE
    ELSE IF d < 1 \/ d > days_in_month(c, m, y) THEN FALSE
    ELSE TRUE

----------------------------------------------------------------------------
(* Calendar: the current date.  A date is [day, month, year]; the Calendar's *)
(* own is the variables day, month, year.                                   *)

Date(d, m, y) == [day |-> d, month |-> m, year |-> y]

Cur == Date(day, month, year)

\* Python's "x or default" on an optional integer: None and 0 are falsy
OrInt(x, default) == IF x = None \/ x[1] = 0 THEN default ELSE x[1]

\* Python's "x or default" on an optional string: None and '' are falsy
OrStr(x, default) == IF x = None \/ x[1] = <<>> THEN default ELSE x[1]

\* set_date's and day_of_year's first three lines: the date they work on
Effective(cur, a) ==
    Date(OrInt(a.day, cur.day), OrStr(a.month, cur.month), OrInt(a.year, cur.year))

\* set_date as it would be if it assigned month and year before validating
set_date_assigns_first(c, cur, a) ==
    LET e == Effective(cur, a)
    IN IF ~date_is_valid(c, e.day, e.month, e.year)
         THEN [cur |-> Date(cur.day, e.month, e.year), ret |-> LolNope]
         ELSE [cur |-> e, ret |-> ReturnNone]

\* Calendar.set_date: [cur |-> the date after the call, ret |-> its outcome]
set_date(c, cur, a) ==
    LET e == Effective(cur, a)
    IN IF ~date_is_valid(c, e.day, e.month, e.year)
         THEN [cur |-> cur, ret |-> LolNope]
         ELSE [cur |-> e, ret |-> ReturnNone]

\* month_keys.index(key), counted from 1; 0 when list.index raises ValueError
KeyIndex(c, key) ==
    IF \E i \in 1..Len(c.keys) : c.keys[i] = key
      THEN CHOOSE i \in 1..Len(c.keys) : c.keys[i] = key
      ELSE 0

\* the while loop of adjust_date's "days > 0" branch and the addition after it.
\* s is [day, month, year, exc]: exc names the exception that ended the call.
RECURSIVE AdjustForward(_, _, _)
AdjustForward(c, s, days) ==
    IF days_in_month_raises(c, s.month)
      THEN [s EXCEPT !.exc = "KeyError"]
    ELSE IF s.day + days > days_in_month(c, s.month, s.year)
      THEN LET rest == days - (days_in_month(c, s.month, s.year) - s.day)
               i == KeyIndex(c, Lower(s.month))
               last == i = Len(c.keys)
               new_month == c.months[c.keys[IF last THEN 1 ELSE i + 1]].name
           IN AdjustForward(c,
                  [day |-> 0, month |-> new_month,
                   year |-> IF last THEN s.year + 1 ELSE s.year, exc |-> ""],
                  rest)
    ELSE [s EXCEPT !.day = s.day + days]

\* the while loop of adjust_date's "days < 0" branch (days is abs(days) here)
\* and the subtraction after it
RECURSIVE AdjustBackward(_, _, _)
AdjustBackward(c, s, days) ==
    IF s.day - days < 1
      THEN LET rest == days - s.day
               i == KeyIndex(c, Lower(s.month))
               first == i = 1
               new_month == c.months[c.keys[IF first THEN Len(c.keys) ELSE i - 1]].name
               new_year == IF first THEN s.year - 1 ELSE s.year
           IN IF i = 0
                THEN [s EXCEPT !.exc = "ValueError"]
              ELSE IF days_in_month_raises(c, new_month)
                THEN [day |-> s.day, month |-> new_month, year |-> new_year,
                      exc |-> "KeyError"]
              ELSE AdjustBackward(c,
                       [day |-> days_in_month(c, new_month, new_year),
                        month |-> new_month, year |-> new_year, exc |-> ""],
                       rest)
    ELSE [s EXCEPT !.day = s.day - days]

\* adjust_date as it would be if a zero offset fell back to one day, the way
\* set_date's arguments fall back (days = days or 1)
adjust_date_zero_is_one(c, cur, days) ==
    LET s0 == [day |-> cur.day, month |-> cur.month, year |-> cur.year, exc |-> ""]
        n == IF days = 0 THEN 1 ELSE days
        s == IF n > 0 THEN AdjustForward(c, s0, n)
             ELSE AdjustBackward(c, s0, 0 - n)
    IN [cur |-> Date(s.day, s.month, s.year),
        ret |-> IF s.exc = "" THEN ReturnNone ELSE Raise(s.exc)]

\* Calendar.adjust_date: [cur |-> the date after the call, ret |-> its outcome]
adjust_date(c, cur, days) ==
    LET s0 == [day |-> cur.day, month |-> cur.month, year |-> cur.year, exc |-> ""]
        s == IF days > 0 THEN AdjustForward(c, s0, days)
             ELSE IF days < 0 THEN AdjustBackward(c, s0, 0 - days)
             ELSE s0
    IN [cur |-> Date(s.day, s.month, s.year),
        ret |-> IF s.exc = "" THEN ReturnNone ELSE Raise(s.exc)]

\* day_of_year as it would be if it also counted the whole of the date's month
day_of_year_counts_own_month(c, cur, a) ==
    LET e == Effective(cur, a)
        m == Lower(e.month)
        RECURSIVE Before(_)
        Before(i) == IF c.keys[i] = m
                       THEN e.day + days_in_month(c, c.keys[i], e.year)
                     ELSE days_in_month(c, c.keys[i], e.year) + Before(i + 1)
    IN IF ~date_is_valid(c, e.day, e.month, e.year) THEN LolNope
       ELSE Return("int", Before(1))

\* Calendar.day_of_year: the outcome of the call
day_of_year(c, cur, a) ==
    LET e == Effective(cur, a)
        m == Lower(e.month)
        RECURSIVE Before(_)
        Before(i) == IF c.keys[i] = m THEN e.day
                     ELSE days_in_month(c, c.keys[i], e.year) + Before(i + 1)
    IN IF ~date_is_valid(c, e.day, e.month, e.year) THEN LolNope
       ELSE Return("int", Before(1))

\* a Date handed to day_of_year: each field as given
AsArgs(d) == [day |-> Some(d.day), month |-> Some(d.month), year |-> Some(d.year)]

\* days_since_date as it would be if the same-month shortcut needed a strictly
\* later day (date_now.day > date_then.day)
days_since_date_later_day_only(c, cur, date_then, date_now) ==
    IF date_now.year = date_then.year /\ date_now.month = date_then.month
          /\ date_now.day > date_then.day
      THEN Return("int", date_now.day - date_then.day)
    ELSE LET doy_then == day_of_year(c, cur, AsArgs(date_then))
             doy_now == day_of_year(c, cur, AsArgs(date_now))
             year_diff == date_now.year - date_then.year
             RECURSIVE Intervening(_)
             Intervening(i) == IF i >= year_diff THEN 0
                               ELSE days_in_year(c, date_then.year + i)
                                    + Intervening(i + 1)
         IN IF doy_then.type # "int" \/ doy_now.type # "int" THEN Raise("TypeError")
            ELSE Return("int",
                     (days_in_year(c, date_then.year) - doy_then.value)
                     + Intervening(1)
                     + (doy_now.value - 1))

\* Calendar.days_since_date: the outcome of the call.  Arithmetic on the string
\* day_of_year returns for an invalid date raises TypeError.
days_since_date(c, cur, date_then, date_now) ==
    IF date_now.year = date_then.year /\ date_now.month = date_then.month
          /\ date_now.day >= date_then.day
      THEN Return("int", date_now.day - date_then.day)
    ELSE LET doy_then == day_of_year(c, cur, AsArgs(date_then))
             doy_now == day_of_year(c, cur, AsArgs(date_now))
             year_diff == date_now.year - date_then.year
             RECURSIVE Intervening(_)
             Intervening(i) == IF i >= year_diff THEN 0
                               ELSE days_in_year(c, date_then.year + i)
                                    + Intervening(i + 1)
         IN IF doy_then.type # "int" \/ doy_now.type # "int" THEN Raise("TypeError")
            ELSE Return("int",
                     (days_in_year(c, date_then.year) - doy_then.value)
                     + Intervening(1)
                     + (doy_now.value - 1))

----------------------------------------------------------------------------
(* What the functions that read the Calendar leave in its day, month, year *)

\* day_of_year as it would be if its three defaulted fields were assigned to
\* self, as set_date assigns them
day_of_year_assigns_self(cur, a) == Effective(cur, a)

\* Calendar.day_of_year: the Calendar's date after the call.  day, month and
\* year are locals of the function; nothing is assigned to self.
after_day_of_year(cur, a) == cur

\* Calendar.days_since_date: the Calendar's date after the call.  Outside the
\* same-month shortcut day_of_year is called for date_then and, unless that
\* call's result ends the function with TypeError, for date_now.
after_days_since_date(c, cur, date_then, date_now) ==
    IF date_now.year = date_then.year /\ date_now.month = date_then.month
          /\ date_now.day >= date_then.day
      THEN cur
    ELSE LET after_then == after_day_of_year(cur, AsArgs(date_then))
         IN IF day_of_year(c, cur, AsArgs(date_then)).type # "int" THEN after_then
            ELSE after_day_of_year(after_then, AsArgs(date_now))

----------------------------------------------------------------------------
(* Almanac.  Hour angles are whole degrees, depressions thousandths of a    *)
(* degree.  The floating-point trigonometry of hour_angle is not computed:  *)
(* its result for a depression, a latitude and a declination is drawn with  *)
(* the call (acos), either an hour angle in 0..180 degrees, the range of    *)
(* math.acos, or the ValueError math.acos raises for a cosine outside       *)
(* -1..1.  The latitude reaches nothing else and is left out.  Times are    *)
(* kept in half minutes where the source has a float, so that noon of a day *)
(* with an odd number of minutes is exact.                                  *)

\* -6 degrees
depression_civil == 0 - 6000

\* -12 degrees
depression_nautical == 0 - 12000

\* the depression sunrise and sunset pass to calc_time, -0.833 degrees
depression_horizon == 0 - 833

rising == 1

setting == 0 - 1

\* Time, as Date a namedtuple
Time(hour, minute) == [hour |-> hour, minute |-> minute]

\* Almanac.__init__: the scalars copied from the Calendar's configuration
Almanac(c) ==
    [minutes_in_hour |-> c.minutes_in_hour,
     hours_in_day |-> c.hours_in_day,
     solar_days_in_year |-> c.solar_days_in_year,
     axial_tilt |-> c.axial_tilt]

\* math.cos(math.radians(deg)) in thousandths, for deg a multiple of 15
Cos1000(deg) ==
    LET a == deg % 360
        b == IF a > 180 THEN 360 - a ELSE a
        Q(x) == CASE x = 0 -> 1000 [] x = 15 -> 966 [] x = 30 -> 866
                  [] x = 45 -> 707 [] x = 60 -> 500 [] x = 75 -> 259
                  [] x = 90 -> 0
    IN IF b > 90 THEN 0 - Q(180 - b) ELSE Q(b)

\* Almanac.solar_declination, its first half: the solstice it measures from
ws_date(c, date) ==
    LET ws == c.seasons.winter_solstice
        ws_year == IF date.month = ws.month /\ date.day >= ws.day
                     THEN date.year
                   ELSE date.year - 1
    IN Date(ws.day, Lower(ws.month), ws_year)

\* Almanac.solar_declination, its call of days_since_date: the outcome
days_since_ws(c, cur, date) == days_since_date(c, cur, ws_date(c, date), date)

\* Almanac.solar_declination: the outcome of the call, the rotation and the
\* declination.  axial_tilt is in tenths of a degree and Cos1000 in
\* thousandths, so the declination is in ten-thousandths of a degree;
\* solar_days_in_year divides 360 into a multiple of 15, so deg_per_day and
\* rotation are whole.
solar_declination(c, cur, date) ==
    LET declination_after(since) ==
          LET deg_per_day == 360 \div Almanac(c).solar_days_in_year
              rotation == since.value * deg_per_day
              declination == 0 - (Almanac(c).axial_tilt * Cos1000(rotation))
          IN IF since.kind = "raise" THEN since
             ELSE Return("declination",
                         [rotation |-> rotation, declination |-> declination])
    IN declination_after(days_since_ws(c, cur, date))

\* the Calendar's date after solar_declination, which reads the Calendar
\* through days_since_date
after_solar_declination(c, cur, date) ==
    after_days_since_date(c, cur, ws_date(c, date), date)

\* Almanac.hour_angle: the outcome of the call.  What solar_declination
\* raises goes through; otherwise the outcome is that of the trigonometry.
hour_angle(c, cur, depression, date, acos) ==
    LET angle_at(declination) ==
          IF declination.kind = "raise" THEN declination ELSE acos
    IN angle_at(solar_declination(c, cur, date))

\* Almanac.calc_time: the outcome of the call, (Time, Date) or what
\* hour_angle raises.  time_utc2 is time_utc in half minutes.
calc_time(c, cur, depression, direction, date, acos) ==
    LET time_at(H) ==
          LET a == Almanac(c)
              delta == 0 - (direction * H.value)
              time_diff == 4 * delta
              noon_minutes2 == a.hours_in_day * a.minutes_in_hour
              time_utc2 == noon_minutes2 + 2 * time_diff
              hour == time_utc2 \div (2 * a.minutes_in_hour)
              minute == (time_utc2 % (2 * a.minutes_in_hour)) \div 2
          IN IF H.kind = "raise" THEN H
             ELSE IF hour > a.hours_in_day - 1
               THEN Return("pair",
                           [time |-> Time(hour - a.hours_in_day, minute),
                            date |-> Date(date.day + 1, date.month, date.year)])
             ELSE IF hour < 0
               THEN Return("pair",
                           [time |-> Time(hour + a.hours_in_day, minute),
                            date |-> Date(date.day - 1, date.month, date.year)])
             ELSE Return("pair",
                         [time |-> Time(hour, minute),
                          date |-> Date(date.day, date.month, date.year)])
    IN time_at(hour_angle(c, cur, depression, date, acos))

\* try: return ... except ValueError: return None
ExceptValueError(outcome) ==
    IF outcome = Raise("ValueError") THEN ReturnNone ELSE outcome

\* `if not depression: depression = self.depression_civil`
OrCivil(depression) == IF depression = 0 THEN depression_civil ELSE depression

\* Almanac.dawn
dawn(c, cur, date, depression, acos) ==
    ExceptValueError(calc_time(c, cur, OrCivil(depression), rising, date, acos))

\* sunset as it would be without its try/except
sunset_unguarded(c, cur, date, acos) ==
    calc_time(c, cur, depression_horizon, setting, date, acos)

\* Almanac.sunrise
sunrise(c, cur, date, acos) ==
    ExceptValueError(calc_time(c, cur, depression_horizon, rising, date, acos))

\* Almanac.sunset
sunset(c, cur, date, acos) ==
    ExceptValueError(calc_time(c, cur, depression_horizon, setting, date, acos))

\* Almanac.dusk
dusk(c, cur, date, depression, acos) ==
    ExceptValueError(calc_time(c, cur, OrCivil(depression), setting, date, acos))

----------------------------------------------------------------------------
(* TurnManager.  initiative is the defaultdict, its items in insertion      *)
(* order: a sequence of [roll, combatants], one for each key, combatants    *)
(* the list of that key.  A combatant in a list is a reference; the model   *)
(* holds its name.  turns is                                                *)
(* the generator generate_turns() returned: where it is (pc: "none" before  *)
(* generate_turns is called, "created" until the first next(), "running"    *)
(* inside a next(), "suspended" at its yield, "ended" once it has           *)
(* returned), the keys of its local turn_order in order, and the positions  *)
(* of its two for loops (at: the entry of turn_order, done: the combatants  *)
(* of that entry's list already yielded).  The lists of turn_order are the  *)
(* lists of initiative themselves, so the generator reads them there.       *)

\* the generator before generate_turns() is called
NoTurns == [pc |-> "none", order |-> <<>>, at |-> 0, done |-> 0]

\* TurnManager.__init__
TurnManager == [initiative |-> <<>>, round_number |-> 0, turns |-> NoTurns]

\* the elements of a list
Elements(list) == {list[i] : i \in 1..Len(list)}

\* the position of key roll in the dict, 0 if it is no key
KeyOf(initiative, roll) ==
    IF \E i \in 1..Len(initiative) : initiative[i].roll = roll
      THEN CHOOSE i \in 1..Len(initiative) : initiative[i].roll = roll
    ELSE 0

\* self.initiative[roll] read by the generator, whose turn_order holds the
\* list of each key it was made from; no key is ever deleted
ListOf(initiative, roll) == initiative[KeyOf(initiative, roll)].combatants

\* the position, in self.initiative.values(), of the first list that holds
\* the combatant; 0 if none does
FirstListWith(initiative, combatant) ==
    LET holding == {i \in 1..Len(initiative) :
                      combatant \in Elements(initiative[i].combatants)}
    IN IF holding = {} THEN 0
       ELSE CHOOSE i \in holding : \A j \in holding : i <= j

\* list.remove(x): the list without the first x
ListRemove(list, x) ==
    LET k == CHOOSE i \in 1..Len(list) :
                 list[i] = x /\ \A j \in 1..(i - 1) : list[j] # x
    IN [i \in 1..(Len(list) - 1) |-> IF i < k THEN list[i] ELSE list[i + 1]]

\* add_combatant as it would be without the loop of lines 32-34
add_combatant_unchecked(t, combatant, initiative_roll) ==
    LET k == KeyOf(t.initiative, initiative_roll)
    IN [tm |-> [t EXCEPT !.initiative =
                   IF k = 0
                     THEN Append(@, [roll |-> initiative_roll,
                                     combatants |-> <<combatant>>])
                   ELSE [@ EXCEPT ![k].combatants = Append(@, combatant)]],
        ret |-> ReturnNone]

\* TurnManager.add_combatant: the TurnManager after the call and the outcome
add_combatant(t, combatant, initiative_roll) ==
    IF FirstListWith(t.initiative, combatant) # 0
      THEN [tm |-> t, ret |-> Raise("Exception")]
    ELSE LET k == KeyOf(t.initiative, initiative_roll)
         IN [tm |-> [t EXCEPT !.initiative =
                        IF k = 0
                          THEN Append(@, [roll |-> initiative_roll,
                                          combatants |-> <<combatant>>])
                        ELSE [@ EXCEPT ![k].combatants = Append(@, combatant)]],
             ret |-> ReturnNone]

\* TurnManager.remove_combatant: the TurnManager after the call and the
\* outcome
remove_combatant(t, combatant) ==
    LET k == FirstListWith(t.initiative, combatant)
    IN IF k = 0 THEN [tm |-> t, ret |-> Raise("Exception")]
       ELSE [tm |-> [t EXCEPT !.initiative[k].combatants =
                                  ListRemove(@, combatant)],
             ret |-> Return("combatant", combatant)]

\* the keys of list(reversed(sorted(self.initiative.items()))): the keys are
\* distinct, so the items are ordered by key alone
RECURSIVE Descending(_)
Descending(rolls) ==
    IF rolls = {} THEN <<>>
    ELSE LET top == CHOOSE r \in rolls : \A q \in rolls : q <= r
         IN <<top>> \o Descending(rolls \ {top})

\* turn_order as it would be without reversed(): the keys ascending
turn_order_unreversed(t) ==
    LET down == Descending({t.initiative[i].roll : i \in 1..Len(t.initiative)})
    IN [i \in 1..Len(down) |-> down[Len(down) + 1 - i]]

\* the keys of turn_order, built by line 47
turn_order(t) == Descending({t.initiative[i].roll : i \in 1..Len(t.initiative)})

----------------------------------------------------------------------------
(* Combatant (attrs class of src/models.py): its hit points, its conditions *)
(* (a dict from a condition to a duration, here the list of its items in    *)
(* insertion order) and, for a Monster, the conditions it is immune to.  A  *)
(* duration is <<n>> for the int n and <<>> for math.inf.                   *)

\* math.inf, the default duration
Inf == <<>>

Finite(n) == <<n>>

\* Combatant(): the attribute defaults
Combatant == [max_hp |-> 10, cur_hp |-> 10, conditions |-> <<>>, immune |-> {}]

\* the cur_hp setter as it would be without its first two lines
set_cur_hp_no_ceiling(k, value) ==
    IF value < 0
      THEN [k EXCEPT !.cur_hp = 0,
                     !.conditions =
                        IF 0 - value >= k.max_hp
                          THEN <<[condition |-> "dead", duration |-> Inf]>>
                        ELSE @]
    ELSE [k EXCEPT !.cur_hp = value]

\* the cur_hp setter: `combatant.cur_hp = value`
set_cur_hp(k, value) ==
    LET capped == IF value > k.max_hp THEN k.max_hp ELSE value
    IN IF capped < 0
         THEN [k EXCEPT !.cur_hp = 0,
                        !.conditions =
                           IF 0 - capped >= k.max_hp
                             THEN <<[condition |-> "dead", duration |-> Inf]>>
                           ELSE @]
       ELSE [k EXCEPT !.cur_hp = capped]

\* the keys of the conditions dict
ConditionsOf(k) == {k.conditions[i].condition : i \in 1..Len(k.conditions)}

\* self.conditions[condition]
DurationOf(k, condition) ==
    k.conditions[CHOOSE i \in 1..Len(k.conditions) :
                    k.conditions[i].condition = condition].duration

\* Combatant.set_condition: a new key goes last, a key already there keeps
\* its place
set_condition(k, condition, duration) ==
    [k EXCEPT !.conditions =
        IF condition \in ConditionsOf(k)
          THEN [i \in 1..Len(@) |->
                  IF @[i].condition = condition
                    THEN [condition |-> condition, duration |-> duration]
                  ELSE @[i]]
        ELSE Append(@, [condition |-> condition, duration |-> duration])]

\* Combatant.unset_condition: the KeyError of an absent key is passed over
unset_condition(k, condition) ==
    [k EXCEPT !.conditions = SelectSeq(@, LAMBDA e : e.condition # condition)]

\* duration - 1: inf - 1 is inf
MinusOne(duration) ==
    IF duration = Inf THEN Inf ELSE Finite(duration[1] - 1)

\* decrement_condition_durations as it would be if it removed a condition
\* whose duration is 0 before the call rather than after the subtraction
decrement_condition_durations_late(k) ==
    LET gone(e) == e.duration = Finite(0)
        RECURSIVE Names(_)
        Names(es) == IF es = <<>> THEN <<>>
                     ELSE <<Head(es).condition>> \o Names(Tail(es))
        lowered == [i \in 1..Len(k.conditions) |->
                      [k.conditions[i] EXCEPT !.duration = MinusOne(@)]]
    IN [combatant |-> [k EXCEPT !.conditions =
                          SelectSeq(lowered,
                                    LAMBDA e : e.duration # Finite(0 - 1))],
        ret |-> Return("list", Names(SelectSeq(k.conditions, gone)))]

\* Combatant.decrement_condition_durations: the Combatant after the call and
\* the list returned.  Every key of list(self.conditions) is lowered by 1,
\* and popped and reported if that made it 0.
decrement_condition_durations(k) ==
    LET lowered == [i \in 1..Len(k.conditions) |->
                      [k.conditions[i] EXCEPT !.duration = MinusOne(@)]]
        gone(e) == e.duration = Finite(0)
        RECURSIVE Names(_)
        Names(es) == IF es = <<>> THEN <<>>
                     ELSE <<Head(es).condition>> \o Names(Tail(es))
    IN [combatant |-> [k EXCEPT !.conditions =
                          SelectSeq(lowered, LAMBDA e : ~gone(e))],
        ret |-> Return("list", Names(SelectSeq(lowered, gone)))]

----------------------------------------------------------------------------
(* Combat (attrs class of src/shell.py): characters and monsters are dicts  *)
(* from a name to a Combatant, defeated a list of Combatants; has_tm tells  *)
(* whether its attribute tm is a TurnManager (the variable tm) or None.     *)

\* Combat(): the attribute defaults
Combat == [characters |-> <<>>, monsters |-> <<>>, defeated |-> <<>>,
           has_tm |-> FALSE]

\* Combat.get_target: the character of that name, else the monster of that
\* name, else None (a Combatant is true, so `or` passes a character on)
get_target(c, name) ==
    IF name \in Elements(c.characters) \/ name \in Elements(c.monsters)
      THEN Some(name)
    ELSE None

\* dict.pop(key) on a dict given by its keys
DictPop(keys, key) == SelectSeq(keys, LAMBDA k : k # key)

\* what `if combat.tm: combat.tm.remove_combatant(target)` leaves
remove_if_tm(c, t, combatant) ==
    IF c.has_tm THEN remove_combatant(t, combatant)
    ELSE [tm |-> t, ret |-> ReturnNone]

\* DefeatMonster.do_command(*args): the Combat and the TurnManager it leaves
\* and its outcome; an exception ends the loop where it is raised
RECURSIVE do_command(_, _, _)
do_command(c, t, args) ==
    IF args = <<>> THEN [combat |-> c, tm |-> t, ret |-> ReturnNone]
    ELSE LET target_name == Head(args)
             removed(r) ==
                 IF r.ret.kind = "raise"
                   THEN [combat |-> c, tm |-> r.tm, ret |-> r.ret]
                 ELSE IF target_name \notin Elements(c.monsters)
                   THEN [combat |-> c, tm |-> r.tm, ret |-> Raise("KeyError")]
                 ELSE do_command(
                        [c EXCEPT !.monsters = DictPop(@, target_name),
                                  !.defeated = Append(@, target_name)],
                        r.tm, Tail(args))
         IN IF get_target(c, target_name) = None
              THEN do_command(c, t, Tail(args))
            ELSE removed(remove_if_tm(c, t, target_name))

\* the loops of Start.do_command: each combatant of the list is added with
\* its roll
RECURSIVE add_each(_, _, _)
add_each(t, names, roll) ==
    IF names = <<>> THEN t
    ELSE add_each(add_combatant(t, Head(names), roll[Head(names)]).tm,
                  Tail(names), roll)

\* Start.do_command: a new TurnManager with the monsters, then the
\* characters, and its generator.  The lines between (566-569) only print
\* the turn order, from an attribute that the TurnManager of
\* src/initiative.py does not have; they are left out.
start(c, roll) ==
    [add_each(add_each(TurnManager, c.monsters, roll), c.characters, roll)
       EXCEPT !.turns.pc = "created"]

\* Damage.do_command(*target_names, amount) on a Combat whose only
\* combatant is k: each name that is a target's loses amount hit points
\* through the cur_hp setter; a monster brought to 0 is defeated if the
\* prompt is answered with y (answer), and an exception ends the loop
RECURSIVE damage(_, _, _, _, _, _)
damage(c, t, k, target_names, amount, answer) ==
    IF target_names = <<>>
      THEN [combat |-> c, tm |-> t, target |-> k, ret |-> ReturnNone]
    ELSE LET target_name == Head(target_names)
             hurt == set_cur_hp(k, k.cur_hp - amount)
             defeated(d) ==
                 IF d.ret.kind = "raise"
                   THEN [combat |-> d.combat, tm |-> d.tm, target |-> hurt,
                         ret |-> d.ret]
                 ELSE damage(d.combat, d.tm, hurt, Tail(target_names),
                             amount, answer)
         IN IF get_target(c, target_name) = None
              THEN damage(c, t, k, Tail(target_names), amount, answer)
            ELSE IF /\ target_name \in Elements(c.monsters)
                    /\ hurt.cur_hp = 0
                    /\ answer
              THEN defeated(do_command(c, t, <<target_name>>))
            ELSE damage(c, t, hurt, Tail(target_names), amount, answer)

\* Heal.do_command(*target_names, amount) on a Combat whose only combatant
\* is k: each name that is a target's, unless dead, gains amount hit points
\* through the cur_hp setter
RECURSIVE heal(_, _, _, _)
heal(c, k, target_names, amount) ==
    IF target_names = <<>> THEN k
    ELSE IF \/ get_target(c, Head(target_names)) = None
            \/ "dead" \in ConditionsOf(k)
      THEN heal(c, k, Tail(target_names), amount)
    ELSE heal(c, set_cur_hp(k, k.cur_hp + amount), Tail(target_names), amount)

\* SetCondition.multipliers.get(units, 1)
multiplier(units) ==
    IF units \in {"minute", "minutes", "min"} THEN 10 ELSE 1

\* the duration SetCondition.do_command works out from its third and fourth
\* arguments, each given or not
duration_of(duration, units) ==
    IF duration = None THEN Inf
    ELSE IF units = None THEN Finite(duration[1])
    ELSE Finite(duration[1] * multiplier(units[1]))

\* SetCondition.do_command(target_name, condition, ...) on a Combat whose
\* only combatant is k
set_command(c, k, target_name, condition, duration) ==
    IF get_target(c, target_name) = None \/ condition \in k.immune THEN k
    ELSE set_condition(k, condition, duration)

\* UnsetCondition.do_command(target_name, condition) on a Combat whose only
\* combatant is k
unset_command(c, k, target_name, condition) ==
    IF get_target(c, target_name) = None THEN k
    ELSE unset_condition(k, condition)

----------------------------------------------------------------------------
(* Inputs *)

\* a month name no configuration has
Unknown == <<"x","y","z">>

\* the longest month of a configuration, leap years included
MaxDays(c) ==
    CHOOSE n \in 1..31 :
        /\ \A i \in 1..Len(c.keys) :
              GetLeapYearDays(c.months[c.keys[i]], c.months[c.keys[i]].days) <= n
                 /\ c.months[c.keys[i]].days <= n
        /\ \E i \in 1..Len(c.keys) :
              GetLeapYearDays(c.months[c.keys[i]], c.months[c.keys[i]].days) = n
                 \/ c.months[c.keys[i]].days = n

\* optional day arguments: absent, 0, every day of a month, one past the longest
DayArgs(c) == {None} \cup {Some(d) : d \in 0..(MaxDays(c) + 1)}

\* month strings a caller passes: each key, each display name, an unknown name
MonthStrings(c) ==
    {c.keys[i] : i \in 1..Len(c.keys)}
       \cup {c.months[c.keys[i]].name : i \in 1..Len(c.keys)}
       \cup {Unknown}

MonthArgs(c) == {None} \cup {Some(m) : m \in MonthStrings(c)}

YearArgs == {None} \cup {Some(y) : y \in Years}

\* the valid dates of a configuration, months written as their keys
ValidDates(c) ==
    {d \in [day : 1..MaxDays(c), month : {c.keys[i] : i \in 1..Len(c.keys)},
            year : Years] : date_is_valid(c, d.day, d.month, d.year)}

\* the valid dates a Calendar can hold: set_date keeps the month as it was
\* written, so a month is a key or any spelling that lower() turns into one
StartDates(c) ==
    {d \in [day : 1..MaxDays(c), month : MonthStrings(c), year : Years] :
        date_is_valid(c, d.day, d.month, d.year)}

\* an operation that has been called and has not yet returned
Pending == [kind |-> "pending", type |-> "", value |-> None]

----------------------------------------------------------------------------
(* The two operations that change the Calendar *)

\* Calendar.set_date with the arguments a, in the current state
SetDateStep(a) ==
    LET r == set_date(cfg, Cur, a)
    IN /\ day' = r.cur.day
       /\ month' = r.cur.month
       /\ year' = r.cur.year
       /\ ret' = r.ret

\* Calendar.adjust_date(days), in the current state
AdjustDateStep(days) ==
    LET r == adjust_date(cfg, Cur, days)
    IN /\ day' = r.cur.day
       /\ month' = r.cur.month
       /\ year' = r.cur.year
       /\ ret' = r.ret

----------------------------------------------------------------------------
(* The Calendar of a session: constructed with the configured default date, *)
(* then changed by set_date and adjust_date in any order, with any          *)
(* arguments.  call names the last operation.                               *)

Init ==
    /\ cfg \in Configs
    /\ day = cfg.default_day
    /\ month = cfg.default_month
    /\ year = cfg.default_year
    /\ clock = Clock(24, 60, 0, 0)
    /\ combat = Combat
    /\ tm = TurnManager
    /\ target = Combatant
    /\ call = [op |-> "init"]
    /\ ret = ReturnNone

SetDate ==
    /\ \E d \in DayArgs(cfg), m \in MonthArgs(cfg), y \in YearArgs :
          SetDateStep([day |-> d, month |-> m, year |-> y])
    /\ call' = [op |-> "set_date"]
    /\ UNCHANGED <<cfg, clock, combat, tm, target>>

\* the years of the model stay within Years
AdjustDate ==
    /\ \E days \in Offsets : AdjustDateStep(days)
    /\ year' \in Years
    /\ call' = [op |-> "adjust_date"]
    /\ UNCHANGED <<cfg, clock, combat, tm, target>>

Next == SetDate \/ AdjustDate

Spec == Init /\ [][Next]_vars

----------------------------------------------------------------------------
(* One call, from any valid date: the Calendar holds a valid date (before), *)
(* the operation and its arguments are drawn at the start, the call         *)
(* returns.  After an adjust_date(n) that returned, adjust_date(-n) may be  *)
(* called once (back).                                                      *)

\* date a is date b or a later one.  days_since_date is called with a
\* date_now that is not before date_then: its caller, solar_declination,
\* passes the solstice of the date's year or of the year before.
NotBefore(c, a, b) ==
    \/ a.year > b.year
    \/ /\ a.year = b.year
       /\ \/ KeyIndex(c, Lower(a.month)) > KeyIndex(c, Lower(b.month))
          \/ /\ Lower(a.month) = Lower(b.month)
             /\ a.day >= b.day

Calls(c) ==
    {[op |-> "is_leap_year", year |-> y] : y \in Years}
      \cup {[op |-> "days_in_year", year |-> y] : y \in Years}
      \cup {[op |-> "days_in_month", month |-> m, year |-> y] :
                m \in MonthStrings(c), y \in Years}
      \cup {[op |-> "day_of_year", date |-> [day |-> d, month |-> m, year |-> y]] :
                d \in DayArgs(c), m \in MonthArgs(c), y \in YearArgs}
      \cup {[op |-> "days_since_date", date_then |-> p[1], date_now |-> p[2]] :
                p \in {q \in ValidDates(c) \X ValidDates(c) : NotBefore(c, q[2], q[1])}}
      \cup {[op |-> "set_date", args |-> [day |-> d, month |-> m, year |-> y]] :
                d \in DayArgs(c), m \in MonthArgs(c), y \in YearArgs}
      \cup {[op |-> "adjust_date", days |-> n, back |-> FALSE] : n \in Offsets}

InitCall ==
    /\ cfg \in Configs
    /\ \E d \in StartDates(cfg) : day = d.day /\ month = d.month /\ year = d.year
    /\ clock = Clock(24, 60, 0, 0)
    /\ combat = Combat
    /\ tm = TurnManager
    /\ target = Combatant
    /\ \E c \in Calls(cfg) : call = [before |-> Cur] @@ c
    /\ ret = Pending

\* a function that reads the Calendar returns (or raises)
Returns(op, outcome, after) ==
    /\ call.op = op
    /\ ret = Pending
    /\ ret' = outcome
    /\ day' = after.day
    /\ month' = after.month
    /\ year' = after.year
    /\ UNCHANGED <<cfg, clock, combat, tm, target, call>>

IsLeapYear ==
    Returns("is_leap_year", Return("bool", is_leap_year(cfg, call.year)), Cur)

DaysInYear ==
    Returns("days_in_year", Return("int", days_in_year(cfg, call.year)), Cur)

DaysInMonth ==
    Returns("days_in_month",
            IF days_in_month_raises(cfg, call.month) THEN Raise("KeyError")
            ELSE Return("int", days_in_month(cfg, call.month, call.year)),
            Cur)

DayOfYear ==
    Returns("day_of_year", day_of_year(cfg, Cur, call.date),
            after_day_of_year(Cur, call.date))

DaysSinceDate ==
    Returns("days_since_date",
            days_since_date(cfg, Cur, call.date_then, call.date_now),
            after_days_since_date(cfg, Cur, call.date_then, call.date_now))

CallSetDate ==
    /\ call.op = "set_date"
    /\ ret = Pending
    /\ SetDateStep(call.args)
    /\ UNCHANGED <<cfg, clock, combat, tm, target, call>>

CallAdjustDate ==
    /\ call.op = "adjust_date"
    /\ ret = Pending
    /\ AdjustDateStep(call.days)
    /\ UNCHANGED <<cfg, clock, combat, tm, target, call>>

CallAdjustDateBack ==
    /\ call.op = "adjust_date"
    /\ ret = ReturnNone
    /\ ~call.back
    /\ AdjustDateStep(0 - call.days)
    /\ call' = [call EXCEPT !.back = TRUE]
    /\ UNCHANGED <<cfg, clock, combat, tm, target>>

NextCall ==
    \/ IsLeapYear \/ DaysInYear \/ DaysInMonth \/ DayOfYear \/ DaysSinceDate
    \/ CallSetDate \/ CallAdjustDate \/ CallAdjustDateBack

SpecCall == InitCall /\ [][NextCall]_vars

----------------------------------------------------------------------------
(* One call of a function that reads the Calendar, the Almanac's included:  *)
(* the configuration has the Almanac's fields, the Calendar holds the first *)
(* day of any year, and the call asks about any valid date.                 *)

\* hour angles a call's trigonometry comes out with: every 45 degrees, both
\* ends of the range of math.acos included
HourAngles == {45 * k : k \in 0..4}

\* the outcomes of the trigonometry of hour_angle
AcosOutcomes == {Raise("ValueError")} \cup {Return("degrees", h) : h \in HourAngles}

\* the depression a caller passes to dawn and dusk: none (0), nautical
Depressions == {0, depression_nautical}

\* the calls of the Calendar's functions that are no set_date or adjust_date
ReadCalls(c) ==
    {[op |-> "is_leap_year", year |-> y] : y \in Years}
      \cup {[op |-> "days_in_year", year |-> y] : y \in Years}
      \cup {[op |-> "days_in_month", month |-> m, year |-> y] :
                m \in MonthStrings(c), y \in Years}
      \cup {[op |-> "day_of_year", date |-> [day |-> d, month |-> m, year |-> y]] :
                d \in DayArgs(c), m \in MonthArgs(c), y \in YearArgs}
      \cup {[op |-> "days_since_date", date_then |-> p[1], date_now |-> p[2]] :
                p \in {q \in ValidDates(c) \X ValidDates(c) : NotBefore(c, q[2], q[1])}}

SkyCalls(c) ==
    {[op |-> "solar_declination", date |-> d] : d \in StartDates(c)}
      \cup {[op |-> "hour_angle", depression |-> depression_civil,
              date |-> d, acos |-> a] :
                d \in StartDates(c), a \in AcosOutcomes}
      \cup {[op |-> "calc_time", depression |-> depression_civil,
              direction |-> dir, date |-> d, acos |-> a] :
                dir \in {rising, setting}, d \in StartDates(c), a \in AcosOutcomes}
      \cup {[op |-> o, date |-> d, acos |-> a] :
                o \in {"sunrise", "sunset"}, d \in StartDates(c), a \in AcosOutcomes}
      \cup {[op |-> o, date |-> d, depression |-> dep, acos |-> a] :
                o \in {"dawn", "dusk"}, d \in StartDates(c),
                dep \in Depressions, a \in AcosOutcomes}

InitSky ==
    /\ cfg \in SkyConfigs
    /\ \E y \in Years : day = 1 /\ month = cfg.keys[1] /\ year = y
    /\ clock = Clock(24, 60, 0, 0)
    /\ combat = Combat
    /\ tm = TurnManager
    /\ target = Combatant
    /\ \/ \E c \in ReadCalls(cfg) : call = [before |-> Cur] @@ c
       \/ \E c \in SkyCalls(cfg) : call = [before |-> Cur] @@ c
    /\ ret = Pending

SolarDeclination ==
    Returns("solar_declination", solar_declination(cfg, Cur, call.date),
            after_solar_declination(cfg, Cur, call.date))

HourAngle ==
    Returns("hour_angle",
            hour_angle(cfg, Cur, call.depression, call.date, call.acos),
            after_solar_declination(cfg, Cur, call.date))

CalcTime ==
    Returns("calc_time",
            calc_time(cfg, Cur, call.depression, call.direction, call.date,
                      call.acos),
            after_solar_declination(cfg, Cur, call.date))

Dawn ==
    Returns("dawn", dawn(cfg, Cur, call.date, call.depression, call.acos),
            after_solar_declination(cfg, Cur, call.date))

Sunrise ==
    Returns("sunrise", sunrise(cfg, Cur, call.date, call.acos),
            after_solar_declination(cfg, Cur, call.date))

Sunset ==
    Returns("sunset", sunset(cfg, Cur, call.date, call.acos),
            after_solar_declination(cfg, Cur, call.date))

Dusk ==
    Returns("dusk", dusk(cfg, Cur, call.date, call.depression, call.acos),
            after_solar_declination(cfg, Cur, call.date))

NextSky ==
    \/ IsLeapYear \/ DaysInYear \/ DaysInMonth \/ DayOfYear \/ DaysSinceDate
    \/ SolarDeclination \/ HourAngle \/ CalcTime
    \/ Dawn \/ Sunrise \/ Sunset \/ Dusk

SpecSky == InitSky /\ [][NextSky]_vars

----------------------------------------------------------------------------
(* The Clock of a session: constructed with a day length and a time of day  *)
(* in range, then adjusted any number of times by any signed hours and      *)
(* minutes.                                                                 *)

\* adjust_time is called with hours in -MaxHours .. MaxHours
MaxHours == 6

\* adjust_time is called with minutes in -MaxMinutes .. MaxMinutes (more than
\* an hour; more than a day of the short day)
MaxMinutes == 61

\* the day lengths of the Clocks: the default, and a short day of 5 hours of
\* 7 minutes
DayLengths == { <<24, 60>>, <<5, 7>> }

InitClock ==
    /\ cfg = CalShort
    /\ day = cfg.default_day
    /\ month = cfg.default_month
    /\ year = cfg.default_year
    /\ \E l \in DayLengths :
          \E h \in 0..(l[1] - 1), m \in 0..(l[2] - 1) :
             clock = Clock(l[1], l[2], h, m)
    /\ combat = Combat
    /\ tm = TurnManager
    /\ target = Combatant
    /\ call = [op |-> "init"]
    /\ ret = ReturnNone

AdjustTime ==
    /\ \E hours \in (0 - MaxHours)..MaxHours,
          minutes \in (0 - MaxMinutes)..MaxMinutes :
          clock' = adjust_time(clock, hours, minutes)
    /\ call' = [op |-> "adjust_time"]
    /\ ret' = ReturnNone
    /\ UNCHANGED <<cfg, day, month, year, combat, tm, target>>

NextClock == AdjustTime

SpecClock == InitClock /\ [][NextClock]_vars

----------------------------------------------------------------------------
(* One adjust_time call: a Clock showing a time in range is adjusted once,  *)
(* by any signed hours and minutes; call holds the arguments and the Clock  *)
(* before the call.                                                         *)

\* the Clocks adjust_time is called on: the short day at each of its times,
\* the default day at the start, the middle and the end of the day and of
\* the hour
ClocksBefore ==
    {Clock(5, 7, h, m) : h \in 0..4, m \in 0..6}
      \cup {Clock(24, 60, h, m) : h \in {0, 11, 23}, m \in {0, 30, 59}}

InitTime ==
    /\ cfg = CalShort
    /\ day = cfg.default_day
    /\ month = cfg.default_month
    /\ year = cfg.default_year
    /\ clock \in ClocksBefore
    /\ combat = Combat
    /\ tm = TurnManager
    /\ target = Combatant
    /\ \E hours \in (0 - MaxHours)..MaxHours,
          minutes \in (0 - MaxMinutes)..MaxMinutes :
          call = [op |-> "adjust_time", hours |-> hours, minutes |-> minutes,
                  before |-> clock]
    /\ ret = Pending

AdjustTimeOnce ==
    /\ call.op = "adjust_time"
    /\ ret = Pending
    /\ clock' = adjust_time(clock, call.hours, call.minutes)
    /\ ret' = ReturnNone
    /\ UNCHANGED <<cfg, day, month, year, combat, tm, target, call>>

NextTime == AdjustTimeOnce

SpecTime == InitTime /\ [][NextTime]_vars

----------------------------------------------------------------------------
(* The TurnManager of a combat: combatants are added and removed, and once  *)
(* generate_turns() has made the generator the caller asks it for the next  *)
(* turn.  A next() runs the generator step by step (BeginRound, NextList,   *)
(* Yield, EndTurns) until it yields or returns; the program is one thread,  *)
(* so nothing is added or removed while a next() runs.  call names the last *)
(* operation and holds what the caller has observed: added, the combatants  *)
(* now in the TurnManager in the order they were added; seen, the           *)
(* combatants yielded since the current round began; stayed, the            *)
(* combatants in the TurnManager since the current round began.             *)

\* round_number is counted up to MaxRound, where the model stops counting
MaxRound == 3

Combatants == {"a", "b", "c"}

Rolls == {5, 9}

\* self.round_number += 1
CountUp(n) == IF n < MaxRound THEN n + 1 ELSE n

\* the combatants in the lists of the TurnManager
InTurnManager(t) ==
    UNION {Elements(t.initiative[i].combatants) : i \in 1..Len(t.initiative)}

\* a list without every x
Without(list, x) == SelectSeq(list, LAMBDA y : y # x)

InitTurns ==
    /\ cfg = CalShort
    /\ day = cfg.default_day
    /\ month = cfg.default_month
    /\ year = cfg.default_year
    /\ clock = Clock(24, 60, 0, 0)
    /\ combat = Combat
    /\ tm = TurnManager
    /\ target = Combatant
    /\ call = [op |-> "init", combatant |-> "", added |-> <<>>, seen |-> <<>>,
               stayed |-> {}]
    /\ ret = ReturnNone

\* what a step on the TurnManager leaves
TurnStep(t, outcome, observed) ==
    /\ tm' = t
    /\ ret' = outcome
    /\ call' = observed
    /\ UNCHANGED <<cfg, day, month, year, clock, combat, target>>

\* add_combatant is called while the generator is at one of the places pcs
AddAt(pcs) ==
    /\ tm.turns.pc \in pcs
    /\ \E combatant \in Combatants, roll \in Rolls :
          \E r \in {add_combatant(tm, combatant, roll)} :
             TurnStep(r.tm, r.ret,
                      [call EXCEPT !.op = "add_combatant",
                                   !.combatant = combatant,
                                   !.added = IF r.ret = ReturnNone
                                               THEN Append(@, combatant)
                                             ELSE @])

AddCombatant == AddAt({"none", "created", "suspended", "ended"})

\* add_combatant before generate_turns() is called
AddBeforeTurns == AddAt({"none"})

RemoveCombatant ==
    /\ tm.turns.pc # "running"
    /\ \E combatant \in Combatants :
          \E r \in {remove_combatant(tm, combatant)} :
             TurnStep(r.tm, r.ret,
                      [call EXCEPT !.op = "remove_combatant",
                                   !.combatant = combatant,
                                   !.added = IF r.ret.kind = "return"
                                               THEN Without(@, combatant)
                                             ELSE @,
                                   !.stayed = IF r.ret.kind = "return"
                                                THEN @ \ {combatant}
                                              ELSE @])

\* generate_turns() is called: the generator is made and has not run
GenerateTurns ==
    /\ tm.turns.pc = "none"
    /\ TurnStep([tm EXCEPT !.turns.pc = "created"], Return("generator", None),
                [call EXCEPT !.op = "generate_turns"])

\* next(turns) on a generator that has not returned: it runs
CallNext ==
    /\ tm.turns.pc \in {"created", "suspended"}
    /\ TurnStep([tm EXCEPT !.turns.pc = "running"], Pending,
                [call EXCEPT !.op = "next"])

\* next(turns) on a generator that has returned
NextAfterEnd ==
    /\ tm.turns.pc = "ended"
    /\ TurnStep(tm, Raise("StopIteration"), [call EXCEPT !.op = "next"])

\* `while self.initiative:` holds: the round number goes up and turn_order
\* is made
BeginRound ==
    /\ tm.turns.pc = "running"
    /\ tm.turns.at = 0
    /\ Len(tm.initiative) > 0
    /\ TurnStep([tm EXCEPT !.round_number = CountUp(@),
                           !.turns.order = turn_order(tm),
                           !.turns.at = 1,
                           !.turns.done = 0],
                Pending,
                [call EXCEPT !.seen = <<>>, !.stayed = InTurnManager(tm)])

\* `while self.initiative:` fails: the generator returns and next() raises
\* StopIteration
EndTurns ==
    /\ tm.turns.pc = "running"
    /\ tm.turns.at = 0
    /\ Len(tm.initiative) = 0
    /\ TurnStep([tm EXCEPT !.turns.pc = "ended"], Raise("StopIteration"), call)

\* `for combatant in combatants:` has a next combatant: it is yielded
Yield ==
    /\ tm.turns.pc = "running"
    /\ tm.turns.at > 0
    /\ \E roll \in {tm.turns.order[tm.turns.at]} :
          \E list \in {ListOf(tm.initiative, roll)} :
             /\ tm.turns.done < Len(list)
             /\ \E combatant \in {list[tm.turns.done + 1]} :
                   TurnStep([tm EXCEPT !.turns.pc = "suspended",
                                       !.turns.done = @ + 1],
                            Return("turn", [round_number |-> tm.round_number,
                                            turn |-> roll,
                                            combatant |-> combatant]),
                            [call EXCEPT !.seen = Append(@, combatant)])

\* `for combatant in combatants:` has none: the next entry of turn_order, or
\* back to the while
NextList ==
    /\ tm.turns.pc = "running"
    /\ tm.turns.at > 0
    /\ tm.turns.done >= Len(ListOf(tm.initiative, tm.turns.order[tm.turns.at]))
    /\ TurnStep([tm EXCEPT !.turns.at = IF @ < Len(tm.turns.order)
                                          THEN @ + 1 ELSE 0,
                           !.turns.done = 0],
                Pending, call)

\* the steps of a next()
RunsTurns == BeginRound \/ EndTurns \/ Yield \/ NextList

\* combatants are added and removed in any order
NextTable == AddCombatant \/ RemoveCombatant

SpecTable == InitTurns /\ [][NextTable]_vars

\* the combatants are fixed once generate_turns() is called
NextRounds ==
    \/ AddBeforeTurns
    \/ GenerateTurns \/ CallNext \/ NextAfterEnd
    \/ RunsTurns

SpecRounds == InitTurns /\ [][NextRounds]_vars

\* combatants are removed, none is added, once generate_turns() is called;
\* a next() that has been called goes on running
NextRemovals ==
    \/ AddBeforeTurns \/ RemoveCombatant
    \/ GenerateTurns \/ CallNext \/ NextAfterEnd
    \/ RunsTurns

SpecRemovals == InitTurns /\ [][NextRemovals]_vars /\ WF_vars(RunsTurns)

----------------------------------------------------------------------------
(* The defeat command: a Combat holds characters and monsters, `start` may  *)
(* have given it a TurnManager with all of them, and `defeat` is typed with *)
(* one or more names, of monsters, of characters or of nobody.  call holds  *)
(* the names typed and the Combat and TurnManager before the command.       *)

\* the longest list of names typed after `defeat`
MaxArgs == 2

\* the names typed: the combatants' and one that is nobody's
Names == Combatants \cup {"nobody"}

ArgLists == UNION {[1..n -> Names] : n \in 1..MaxArgs}

\* the names, in the order of Names, that f gives the role
WithRole(f, role) ==
    SelectSeq(<<"a", "b", "c">>, LAMBDA n : f[n] = role)

InitDefeat ==
    /\ cfg = CalShort
    /\ day = cfg.default_day
    /\ month = cfg.default_month
    /\ year = cfg.default_year
    /\ clock = Clock(24, 60, 0, 0)
    /\ \E f \in [Combatants -> {"character", "monster", "absent"}] :
          combat = [Combat EXCEPT !.characters = WithRole(f, "character"),
                                  !.monsters = WithRole(f, "monster")]
    /\ tm = TurnManager
    /\ target = Combatant
    /\ call = [op |-> "init"]
    /\ ret = ReturnNone

Start ==
    /\ \E roll \in [Combatants -> Rolls] : tm' = start(combat, roll)
    /\ combat' = [combat EXCEPT !.has_tm = TRUE]
    /\ call' = [op |-> "start"]
    /\ ret' = ReturnNone
    /\ UNCHANGED <<cfg, day, month, year, clock, target>>

Defeat ==
    /\ \E args \in ArgLists :
          \E r \in {do_command(combat, tm, args)} :
             /\ combat' = r.combat
             /\ tm' = r.tm
             /\ ret' = r.ret
             /\ call' = [op |-> "defeat", args |-> args,
                         combat |-> combat, tm |-> tm]
    /\ UNCHANGED <<cfg, day, month, year, clock, target>>

NextDefeat == Start \/ Defeat

SpecDefeat == InitDefeat /\ [][NextDefeat]_vars

----------------------------------------------------------------------------
(* One Combatant in a Combat: the monster or character named TargetName,    *)
(* held by the variable target.  The damage and heal commands change its    *)
(* hit points; call holds the command, the hit points before it and, for    *)
(* each condition in effect, the duration it was set with and, if that is   *)
(* finite, the number of decrement_condition_durations calls since (set).   *)

\* the greatest max_hp of the Combatant
MaxHp == 3

\* the damage and heal commands are given amounts -MaxAmount .. MaxAmount
MaxAmount == 4

TargetName == "a"

Amounts == (0 - MaxAmount)..MaxAmount

\* the names typed before the amount
TargetLists == UNION {[1..n -> {TargetName, "nobody"}] : n \in 1..MaxArgs}

\* the Combats whose only combatant is the target
CombatsOfOne ==
    {[Combat EXCEPT !.monsters = <<TargetName>>],
     [Combat EXCEPT !.characters = <<TargetName>>]}

ConditionNames == {"prone", "stunned", "charmed"}

\* no condition has been set
NothingSet == [c \in ConditionNames \cup {"dead"} |-> None]

\* a condition just set with a duration
SetWith(duration) == Some([given |-> duration, calls |-> 0])

\* what is known of the conditions before a command: a condition that the
\* last decrement_condition_durations call removed is known no more
Fresh(set) ==
    [c \in DOMAIN set |->
        IF set[c] # None /\ set[c][1].given # Inf
              /\ set[c][1].given[1] >= 1
              /\ set[c][1].calls >= set[c][1].given[1]
          THEN None
        ELSE set[c]]

InitHp ==
    /\ cfg = CalShort
    /\ day = cfg.default_day
    /\ month = cfg.default_month
    /\ year = cfg.default_year
    /\ clock = Clock(24, 60, 0, 0)
    /\ combat \in CombatsOfOne
    /\ tm = TurnManager
    /\ \E max_hp \in 0..MaxHp, cur_hp \in 0..MaxHp :
          /\ cur_hp <= max_hp
          /\ target = [Combatant EXCEPT !.max_hp = max_hp, !.cur_hp = cur_hp]
    /\ call = [op |-> "init", cur_hp |-> target.cur_hp, set |-> NothingSet]
    /\ ret = ReturnNone

\* the damage command with target names and an amount from the given sets;
\* a setter that replaced the conditions left only 'dead', for ever
DamageWith(lists, amounts) ==
    /\ \E target_names \in lists, amount \in amounts, answer \in BOOLEAN :
          \E r \in {damage(combat, tm, target, target_names, amount, answer)} :
             /\ combat' = r.combat
             /\ tm' = r.tm
             /\ target' = r.target
             /\ ret' = r.ret
             /\ call' = [op |-> "damage", cur_hp |-> target.cur_hp,
                         set |-> IF r.target.conditions # target.conditions
                                   THEN [NothingSet EXCEPT
                                           !["dead"] = SetWith(Inf)]
                                 ELSE Fresh(call.set)]
    /\ UNCHANGED <<cfg, day, month, year, clock>>

Damage == DamageWith(TargetLists, Amounts)

Heal ==
    /\ \E target_names \in TargetLists, amount \in Amounts :
          /\ target' = heal(combat, target, target_names, amount)
          /\ call' = [op |-> "heal", cur_hp |-> target.cur_hp,
                      set |-> Fresh(call.set)]
    /\ ret' = ReturnNone
    /\ UNCHANGED <<cfg, day, month, year, clock, combat, tm>>

NextHp == Damage \/ Heal

SpecHp == InitHp /\ [][NextHp]_vars

----------------------------------------------------------------------------
(* The conditions of one Combatant: a monster of 1 hit point, immune to one *)
(* condition, on which conditions are set, with or without a duration and   *)
(* its units, and unset; decrement_condition_durations is called on it as   *)
(* the next command does for the combatant whose turn ends; a hit takes its *)
(* hit point or kills it.                                                   *)

\* the duration typed after the condition is 0 or MaxDuration
MaxDuration == 1

\* decrement_condition_durations is called while no duration is below
\* -MaxBelow
MaxBelow == 2

DurationArgs == {None, Some(0), Some(MaxDuration)}

UnitArgs == {None, Some("rounds"), Some("minutes")}

\* the durations the set command can be asked for
Durations ==
    {duration_of(d, u) : d \in DurationArgs, u \in UnitArgs}

\* a hit that takes the hit point, and one that kills
Hits == {1, 2}

InitConditions ==
    /\ cfg = CalShort
    /\ day = cfg.default_day
    /\ month = cfg.default_month
    /\ year = cfg.default_year
    /\ clock = Clock(24, 60, 0, 0)
    /\ combat = [Combat EXCEPT !.monsters = <<TargetName>>]
    /\ tm = TurnManager
    /\ target = [Combatant EXCEPT !.max_hp = 1, !.cur_hp = 1,
                                  !.immune = {"charmed"}]
    /\ call = [op |-> "init", cur_hp |-> target.cur_hp, set |-> NothingSet]
    /\ ret = ReturnNone

SetCondition ==
    /\ \E condition \in ConditionNames, duration \in Durations :
          /\ target' = set_command(combat, target, TargetName, condition,
                                   duration)
          /\ call' = [op |-> "set", cur_hp |-> target.cur_hp,
                      set |-> IF \/ get_target(combat, TargetName) = None
                                 \/ condition \in target.immune
                                THEN Fresh(call.set)
                              ELSE [Fresh(call.set) EXCEPT
                                      ![condition] = SetWith(duration)]]
    /\ ret' = ReturnNone
    /\ UNCHANGED <<cfg, day, month, year, clock, combat, tm>>

UnsetCondition ==
    /\ \E condition \in ConditionNames :
          /\ target' = unset_command(combat, target, TargetName, condition)
          /\ call' = [op |-> "unset", cur_hp |-> target.cur_hp,
                      set |-> IF get_target(combat, TargetName) = None
                                THEN Fresh(call.set)
                              ELSE [Fresh(call.set) EXCEPT ![condition] = None]]
    /\ ret' = ReturnNone
    /\ UNCHANGED <<cfg, day, month, year, clock, combat, tm>>

\* target.decrement_condition_durations()
DecrementConditionDurations ==
    /\ \A i \in 1..Len(target.conditions) :
          IF target.conditions[i].duration = Inf THEN TRUE
          ELSE target.conditions[i].duration[1] > 0 - MaxBelow
    /\ \E r \in {decrement_condition_durations(target)} :
          /\ target' = r.combatant
          /\ ret' = r.ret
    /\ call' = [op |-> "decrement", cur_hp |-> target.cur_hp,
                set |-> [c \in DOMAIN call.set |->
                           IF Fresh(call.set)[c] = None THEN None
                           ELSE IF Fresh(call.set)[c][1].given = Inf
                             THEN Fresh(call.set)[c]
                           ELSE Some([Fresh(call.set)[c][1] EXCEPT
                                        !.calls = @ + 1])]]
    /\ UNCHANGED <<cfg, day, month, year, clock, combat, tm>>

Hit == DamageWith({<<TargetName>>}, Hits)

NextConditions ==
    SetCondition \/ UnsetCondition \/ DecrementConditionDurations \/ Hit

SpecConditions == InitConditions /\ [][NextConditions]_vars

----------------------------------------------------------------------------
(* One adjust_date call, pass by pass: the session has brought the Calendar *)
(* to a valid date when adjust_date is called with any offset, and each     *)
(* pass of its while loop is a step.  call.pc is where the call is ("idle"  *)
(* before it, "enter", in the loop of the "forward" or of the "backward"    *)
(* branch, "done"), call.left the local variable days, call.passes the      *)
(* passes of the loop made so far.                                          *)

\* the forward loop bleeds off the days to the end of the month (line 90)
ForwardLeft(c, cur, left) == left - (days_in_month(c, cur.month, cur.year) - cur.day)

\* the forward loop moves to the next month (lines 93-100): its name, and the
\* year, the next one after the last month
NextMonth(c, cur) ==
    LET i == KeyIndex(c, Lower(cur.month))
        last == i = Len(c.keys)
    IN [month |-> c.months[c.keys[IF last THEN 1 ELSE i + 1]].name,
        year |-> IF last THEN cur.year + 1 ELSE cur.year]

\* the backward loop as it would be if it kept one day of the month it leaves
\* (days -= self.day - 1)
BackwardLeft_keeps_a_day(cur, left) == left - (cur.day - 1)

\* the backward loop bleeds off the days to the beginning of the month
\* (line 111)
BackwardLeft(cur, left) == left - cur.day

\* the backward loop moves to the previous month (lines 114-121): its name,
\* and the year, the one before for the first month
PreviousMonth(c, cur) ==
    LET i == KeyIndex(c, Lower(cur.month))
        first == i = 1
    IN [month |-> c.months[c.keys[IF first THEN Len(c.keys) ELSE i - 1]].name,
        year |-> IF first THEN cur.year - 1 ELSE cur.year]

InitLoop ==
    /\ cfg \in Configs
    /\ day = cfg.default_day
    /\ month = cfg.default_month
    /\ year = cfg.default_year
    /\ clock = Clock(24, 60, 0, 0)
    /\ combat = Combat
    /\ tm = TurnManager
    /\ target = Combatant
    /\ call = [op |-> "init", before |-> Cur, days |-> 0,
               pc |-> "idle", left |-> 0, passes |-> 0]
    /\ ret = ReturnNone

\* adjust_date(n) is called, the Calendar holding any valid date
Called ==
    /\ call.pc = "idle"
    /\ \E d \in StartDates(cfg), n \in Offsets :
          /\ day' = d.day
          /\ month' = d.month
          /\ year' = d.year
          /\ call' = [op |-> "adjust_date", before |-> d, days |-> n,
                      pc |-> "enter", left |-> n, passes |-> 0]
    /\ ret' = Pending
    /\ UNCHANGED <<cfg, clock, combat, tm, target>>

\* the date and the outcome a step of the call leaves
LoopStep(pc, left, passes, cur, outcome) ==
    /\ call' = [call EXCEPT !.pc = pc, !.left = left, !.passes = passes]
    /\ day' = cur.day
    /\ month' = cur.month
    /\ year' = cur.year
    /\ ret' = outcome
    /\ UNCHANGED <<cfg, clock, combat, tm, target>>

\* `if days > 0:` ... `elif days < 0: days = abs(days)`; neither for 0
Enter ==
    /\ call.pc = "enter"
    /\ IF call.days > 0 THEN LoopStep("forward", call.left, 0, Cur, Pending)
       ELSE IF call.days < 0
         THEN LoopStep("backward", 0 - call.left, 0, Cur, Pending)
       ELSE LoopStep("done", call.left, 0, Cur, ReturnNone)

\* the forward loop's condition raises: the month is a name that is no key
ForwardRaise ==
    /\ call.pc = "forward"
    /\ days_in_month_raises(cfg, month)
    /\ LoopStep("done", call.left, call.passes, Cur, Raise("KeyError"))

\* the forward loop's condition holds: a pass
ForwardMove ==
    /\ call.pc = "forward"
    /\ ~days_in_month_raises(cfg, month)
    /\ day + call.left > days_in_month(cfg, month, year)
    /\ \E m \in {NextMonth(cfg, Cur)} :
          LoopStep("forward", ForwardLeft(cfg, Cur, call.left), call.passes + 1,
                   Date(0, m.month, m.year), Pending)

\* the forward loop's condition fails: `self.day += days`
ForwardLand ==
    /\ call.pc = "forward"
    /\ ~days_in_month_raises(cfg, month)
    /\ ~(day + call.left > days_in_month(cfg, month, year))
    /\ LoopStep("done", call.left, call.passes,
                Date(day + call.left, month, year), ReturnNone)

\* the backward loop's condition holds: a pass, to the last day of the
\* previous month
BackwardMove ==
    /\ call.pc = "backward"
    /\ day - call.left < 1
    /\ \E m \in {PreviousMonth(cfg, Cur)} :
          /\ ~days_in_month_raises(cfg, m.month)
          /\ LoopStep("backward", BackwardLeft(Cur, call.left), call.passes + 1,
                      Date(days_in_month(cfg, m.month, m.year), m.month, m.year),
                      Pending)

\* the same pass when the name the month has just been set to is no key:
\* days_in_month raises KeyError (line 124), the day is not assigned
BackwardRaise ==
    /\ call.pc = "backward"
    /\ day - call.left < 1
    /\ \E m \in {PreviousMonth(cfg, Cur)} :
          /\ days_in_month_raises(cfg, m.month)
          /\ LoopStep("done", BackwardLeft(Cur, call.left), call.passes + 1,
                      Date(day, m.month, m.year), Raise("KeyError"))

\* the backward loop's condition fails: `self.day -= days`
BackwardLand ==
    /\ call.pc = "backward"
    /\ ~(day - call.left < 1)
    /\ LoopStep("done", call.left, call.passes,
                Date(day - call.left, month, year), ReturnNone)

\* the steps of a call that has been made
Runs ==
    \/ Enter
    \/ ForwardRaise \/ ForwardMove \/ ForwardLand
    \/ BackwardMove \/ BackwardRaise \/ BackwardLand

NextLoop == Called \/ Runs

\* a call that has been made goes on running: nothing but the call itself
\* runs between its steps
SpecLoop == InitLoop /\ [][NextLoop]_vars /\ WF_vars(Runs)

----------------------------------------------------------------------------
(* What the properties are stated with *)

\* the position of a month in configured order, whatever its case
MonthIndex(c, m) == KeyIndex(c, Lower(m))

\* two dates are the same day (months compared case-insensitively)
SameDate(a, b) == a.day = b.day /\ Lower(a.month) = Lower(b.month) /\ a.year = b.year

\* the day after d: the next day of the month, day 1 of the next month in
\* configured order, day 1 of the first month of the next year
NextDay(c, d) ==
    LET i == MonthIndex(c, d.month)
    IN IF d.day < days_in_month(c, c.keys[i], d.year)
         THEN Date(d.day + 1, c.keys[i], d.year)
       ELSE IF i < Len(c.keys) THEN Date(1, c.keys[i + 1], d.year)
       ELSE Date(1, c.keys[1], d.year + 1)

\* the day before d
PrevDay(c, d) ==
    LET i == MonthIndex(c, d.month)
    IN IF d.day > 1 THEN Date(d.day - 1, c.keys[i], d.year)
       ELSE IF i > 1
         THEN Date(days_in_month(c, c.keys[i - 1], d.year), c.keys[i - 1], d.year)
       ELSE Date(days_in_month(c, c.keys[Len(c.keys)], d.year - 1),
                 c.keys[Len(c.keys)], d.year - 1)

\* n single-day steps from d: forward for n > 0, backward for n < 0
RECURSIVE Steps(_, _, _)
Steps(c, d, n) ==
    IF n = 0 THEN d
    ELSE IF n > 0 THEN Steps(c, NextDay(c, d), n - 1)
    ELSE Steps(c, PrevDay(c, d), n + 1)

\* the sum of days_in_month over the months before position i
RECURSIVE DaysBefore(_, _, _)
DaysBefore(c, i, y) ==
    IF i <= 1 THEN 0
    ELSE DaysBefore(c, i - 1, y) + days_in_month(c, c.keys[i - 1], y)

\* the current date is a date of the calendar
ValidCurrentDate ==
    /\ HasMonth(cfg, Lower(month))
    /\ 1 <= day
    /\ day <= days_in_month(cfg, month, year)

\* the call named op has returned or raised
Done(op) == call.op = op /\ ret # Pending

\* every argument of a set_date or day_of_year call was passed
AllGiven(a) == a.day # None /\ a.month # None /\ a.year # None

\* the date a set_date or day_of_year call was passed, when AllGiven
Given(a) == Date(a.day[1], a.month[1], a.year[1])

\* the date set_date or day_of_year was asked about is not a date of the calendar
AskedInvalid(a) ==
    LET e == Effective(call.before, a)
    IN ~date_is_valid(cfg, e.day, e.month, e.year)

----------------------------------------------------------------------------
(* Properties *)

\* C1: after any sequence of set_date and adjust_date calls from the default
\* date, the current date has 1 <= day <= days_in_month(month, year) and a
\* month that is, case-insensitively, a configured key - in every
\* configuration, a display name that differs from its key included.
C1_DateStaysValid == ValidCurrentDate

\* C2: adjust_date(n) from a valid date returns with the date n single-day
\* steps away: n successors for n > 0, |n| predecessors for n < 0.
C2_AdjustDateMovesExactly ==
    (Done("adjust_date") /\ ~call.back /\ call.days # 0)
       => /\ ret = ReturnNone
          /\ SameDate(Cur, Steps(cfg, call.before, call.days))

\* C3: adjust_date(n) followed by adjust_date(-n) returns to the date it
\* started from, for every valid start and every n.
C3_AdjustDateRoundTrip ==
    Done("adjust_date")
       => /\ ret = ReturnNone
          /\ call.back => SameDate(Cur, call.before)

\* C4: days_since_date(d, now) is n whenever now is the date adjust_date(n)
\* reaches from d, n >= 0.
C4_DaysSinceCountsDays ==
    Done("days_since_date")
       => \A n \in 0..MaxOffset :
             LET r == adjust_date(cfg, call.date_then, n)
             IN (r.ret = ReturnNone /\ SameDate(r.cur, call.date_now))
                   => ret = Return("int", n)

C6_InvalidDateIsAFailure ==
    /\ (Done("set_date") /\ AskedInvalid(call.args)) => ret.kind = "raise"
    /\ (Done("day_of_year") /\ AskedInvalid(call.date)) => ret.kind = "raise"

\* C7: a successful set_date(day, month, year) with a valid triple, for every
\* integer year (0 and negative years too), leaves the current date equal to
\* exactly that triple.
C7_SetDateTakesTheTriple ==
    (/\ Done("set_date")
     /\ AllGiven(call.args)
     /\ date_is_valid(cfg, call.args.day[1], call.args.month[1], call.args.year[1])
     /\ ret = ReturnNone)
       => Cur = Given(call.args)

\* C8: days_in_month(month, year) finds the month case-insensitively and
\* returns its leap_year_days when the year is a leap year and the month has
\* the override, its days in every other case.
C8_DaysInMonth ==
    Done("days_in_month")
       => \A i \in 1..Len(cfg.keys) :
             Lower(call.month) = cfg.keys[i]
                => LET m == cfg.months[cfg.keys[i]]
                   IN ret = Return("int",
                               IF is_leap_year(cfg, call.year)
                                    /\ "leap_year_days" \in DOMAIN m
                                 THEN m.leap_year_days
                                 ELSE m.days)

\* feb, written with a capital, has its leap day in a leap year other than 0
C8_Witness ==
    /\ Done("days_in_month")
    /\ cfg = CalShort
    /\ call.month = <<"F","e","b">>
    /\ call.year # 0
    /\ is_leap_year(cfg, call.year)
    /\ ret = Return("int", 3)

\* C9: days_in_year(y) is the sum of days_in_month(m, y) over the configured
\* months, in leap and non-leap years.
C9_DaysInYearIsSumOfMonths ==
    Done("days_in_year")
       => ret = Return("int", DaysBefore(cfg, Len(cfg.keys) + 1, call.year))

C9_Witness ==
    /\ Done("days_in_year")
    /\ is_leap_year(cfg, call.year)
    /\ ret = Return("int", 8)

\* what C10 says of the day_of_year call in call, of a date of year y
DayOfYearAsSpecified ==
    LET d == Given(call.date)
        i == MonthIndex(cfg, d.month)
    IN /\ ret = Return("int", DaysBefore(cfg, i, d.year) + d.day)
       /\ 1 <= ret.value
       /\ ret.value <= days_in_year(cfg, d.year)
       /\ (i = 1 /\ d.day = 1) => ret.value = 1
       /\ (i = Len(cfg.keys) /\ d.day = days_in_month(cfg, d.month, d.year))
             => ret.value = days_in_year(cfg, d.year)

\* a day_of_year call with a valid date has returned
DayOfYearOfValidDate ==
    /\ Done("day_of_year")
    /\ AllGiven(call.date)
    /\ date_is_valid(cfg, call.date.day[1], call.date.month[1], call.date.year[1])

\* C10 as stated: for every valid date, day_of_year is the days of the months
\* before plus the day, within 1..days_in_year(year), 1 on the first day of
\* the year and days_in_year(year) on the last.
C10_DayOfYearOriginal == DayOfYearOfValidDate => DayOfYearAsSpecified

\* C10 as amended: the same, for every valid date whose year is not 0 (a year
\* of 0 is taken as not given and replaced by the Calendar's current year).
C10_DayOfYear ==
    (DayOfYearOfValidDate /\ call.date.year[1] # 0) => DayOfYearAsSpecified

\* the last day of a leap year other than 0, asked while the Calendar is in a
\* year that is not a leap year
C10_Witness ==
    /\ DayOfYearOfValidDate
    /\ call.date.year[1] # 0
    /\ is_leap_year(cfg, call.date.year[1])
    /\ ~is_leap_year(cfg, year)
    /\ MonthIndex(cfg, call.date.month[1]) = Len(cfg.keys)
    /\ call.date.day[1] = days_in_month(cfg, call.date.month[1], call.date.year[1])
    /\ ret = Return("int", 8)

\* C11: for every valid date d, days_since_date(d, d) returns 0.
C11_SameDateIsZeroDays ==
    Done("days_since_date") /\ call.date_then = call.date_now
       => ret = Return("int", 0)

\* days_since_date(d, d) has returned for the last day of a leap month
C11_Witness ==
    /\ Done("days_since_date")
    /\ call.date_then = call.date_now
    /\ call.date_now.day = 3 /\ call.date_now.month = <<"f","e","b">>
    /\ ret = Return("int", 0)

\* C12: adjust_date(0) returns with day, month and year exactly as they were,
\* from every valid current date.
C12_AdjustDateZeroIsNoOp ==
    Done("adjust_date") /\ call.days = 0 /\ ~call.back
       => Cur = call.before /\ ret = ReturnNone

\* adjust_date(0) has returned on the last day of a year, the month held as
\* its display name
C12_Witness ==
    /\ Done("adjust_date") /\ call.days = 0 /\ ~call.back
    /\ ret = ReturnNone
    /\ call.before = Date(2, <<"M","a","r">>, 1)
    /\ Cur = call.before

\* C13: the functions that read the Calendar (days_in_year, days_in_month,
\* is_leap_year, day_of_year, days_since_date) and every Almanac operation
\* (dawn, sunrise, sunset, dusk, calc_time, hour_angle, solar_declination)
\* return or raise with the Calendar's day, month and year as they were.
C13_ReadsLeaveTheDate ==
    call.op \in {"days_in_year", "days_in_month", "is_leap_year", "day_of_year",
                 "days_since_date", "dawn", "sunrise", "sunset", "dusk",
                 "calc_time", "hour_angle", "solar_declination"}
       /\ ret # Pending
       => Cur = call.before

\* sunset has returned a time for a date that is not the Calendar's and whose
\* solstice is counted through day_of_year
C13_Witness ==
    /\ Done("sunset")
    /\ ret.type = "pair"
    /\ call.date.year # call.before.year
    /\ call.date.month # ws_date(cfg, call.date).month
    /\ Cur = call.before

\* the call of SpecLoop has been made
LoopCalled == call.pc = "enter"

\* the call of SpecLoop has returned or raised
LoopDone == call.pc = "done"

\* a pass of the loop has just been made
PassMade == call'.passes > call.passes

\* the pass made is the first of a forward call and starts on the last day of
\* a month
FirstForwardPassFromLastDay ==
    /\ call.pc = "forward"
    /\ call.passes = 0
    /\ day = days_in_month(cfg, month, year)

\* a call that returned normally after moving to another month
Landed == LoopDone /\ ret = ReturnNone /\ call.passes > 0

\* C14 as stated: adjust_date(n) ends, for every valid start date and every n
\* (all month lengths are >= 1); each pass of the bleed-off loop, which moves
\* to another month, strictly reduces the remaining offset; the call returns
\* once the remainder fits in the landing month.
C14_TerminatesOriginal ==
    /\ LoopCalled ~> LoopDone
    /\ [][PassMade => call'.left < call.left]_vars
    /\ [](Landed => ValidCurrentDate)

\* C14 as amended: the same, except that a first forward pass that starts on
\* the last day of a month leaves the remaining offset as it is (day becomes
\* 0 of the next month); every other pass strictly reduces it, and none
\* increases it.
C14_Terminates ==
    /\ LoopCalled ~> LoopDone
    /\ [][PassMade =>
            IF FirstForwardPassFromLastDay THEN call'.left = call.left
            ELSE call'.left < call.left]_vars
    /\ [](Landed => ValidCurrentDate)

\* an adjust_date(9) that started on the last day of a month has returned
\* after passing through more than a year of months
C14_Witness ==
    /\ Landed
    /\ call.days = MaxOffset
    /\ call.passes > 3
    /\ call.before.day = days_in_month(cfg, call.before.month, call.before.year)
    /\ year > call.before.year

\* the outcome of the hour-angle computation of the call of a solar event
HourAngleOfCall ==
    hour_angle(cfg, call.before, depression_horizon, call.date, call.acos)

\* C15: when the hour-angle computation fails because the altitude is never
\* reached (math.acos raises ValueError), each of dawn, sunrise, sunset and
\* dusk returns None and nothing is raised; when the hour-angle computation
\* does not fail, each returns a (Time, Date) pair.
C15_NoEventIsNone ==
    call.op \in {"dawn", "sunrise", "sunset", "dusk"} /\ ret # Pending
       => /\ HourAngleOfCall = Raise("ValueError") => ret = ReturnNone
          /\ HourAngleOfCall.kind = "return"
                => ret.kind = "return" /\ ret.type = "pair"

\* sunset has returned None for a date on which the sun does not set
C15_Witness ==
    /\ Done("sunset")
    /\ HourAngleOfCall = Raise("ValueError")
    /\ ret = ReturnNone

\* date a is not after date b
NotAfter(c, a, b) ==
    \/ a.year < b.year
    \/ /\ a.year = b.year
       /\ \/ MonthIndex(c, a.month) < MonthIndex(c, b.month)
          \/ MonthIndex(c, a.month) = MonthIndex(c, b.month) /\ a.day <= b.day

\* the most recent winter solstice at or before a date: that of the date's
\* year if it is not after the date, else that of the year before
MostRecentSolstice(c, date) ==
    LET ws == c.seasons.winter_solstice
        this_year == Date(ws.day, ws.month, date.year)
    IN IF NotAfter(c, this_year, date) THEN this_year
       ELSE Date(ws.day, ws.month, date.year - 1)

\* C16: for every valid date and every configured winter solstice, in
\* whichever month, the solstice solar_declination measures from is the most
\* recent one at or before the date, and the day count it uses is at least 0
\* and less than days_in_year of the solstice's year.
C16_MeasuresFromMostRecentSolstice ==
    Done("solar_declination")
       => LET since == days_since_ws(cfg, call.before, call.date)
              from == ws_date(cfg, call.date)
          IN /\ SameDate(from, MostRecentSolstice(cfg, call.date))
             /\ since.kind = "return" /\ since.type = "int"
             /\ 0 <= since.value
             /\ since.value < days_in_year(cfg, from.year)

\* the date solar_declination is asked about is the configured winter
\* solstice of its year
OnSolsticeDate ==
    LET ws == cfg.seasons.winter_solstice
    IN call.date.day = ws.day /\ Lower(call.date.month) = Lower(ws.month)

\* C17: on the configured winter-solstice date of any year solar_declination
\* measures from that same date, 0 days, so the rotation is 0 and the
\* declination is -axial_tilt.
C17_SolsticeDayIsZero ==
    Done("solar_declination") /\ OnSolsticeDate
       => /\ SameDate(ws_date(cfg, call.date), call.date)
          /\ days_since_ws(cfg, call.before, call.date) = Return("int", 0)
          /\ ret = Return("declination",
                          [rotation |-> 0,
                           declination |-> 0 - (cfg.axial_tilt * 1000)])

\* the operations that return the (Time, Date) of a solar event
SolarEvents == {"calc_time", "dawn", "sunrise", "sunset", "dusk"}

\* a solar event has been computed: the call has returned a (Time, Date) pair
EventReturned == call.op \in SolarEvents /\ ret.kind = "return" /\ ret.type = "pair"

\* C18: every Time calc_time returns, hence dawn, sunrise, sunset and dusk,
\* has 0 <= hour < hours_in_day and 0 <= minute < minutes_in_hour, for every
\* hour angle in 0..180 degrees, both directions and every configured day
\* length.
C18_TimeInRange ==
    EventReturned
       => /\ 0 <= ret.value.time.hour
          /\ ret.value.time.hour < cfg.hours_in_day
          /\ 0 <= ret.value.time.minute
          /\ ret.value.time.minute < cfg.minutes_in_hour

\* the direction of the event of the call
DirectionOfCall ==
    IF call.op = "calc_time" THEN call.direction
    ELSE IF call.op \in {"dawn", "sunrise"} THEN rising
    ELSE setting

\* the days from the date asked about to the day the event's time falls in:
\* 1 when noon moved by the hour angle is past the end of the day, -1 when it
\* is before its start (times in half minutes)
DayShiftOfCall ==
    LET day2 == 2 * cfg.hours_in_day * cfg.minutes_in_hour
        event2 == (cfg.hours_in_day * cfg.minutes_in_hour)
                     - 8 * DirectionOfCall * call.acos.value
    IN IF event2 >= day2 THEN 1 ELSE IF event2 < 0 THEN 0 - 1 ELSE 0

\* C19: the Date returned with a solar event is a valid Date of the calendar:
\* the date asked about, or, when the time rolls over into the next or the
\* previous day, that date moved one day as adjust_date(+1) or adjust_date(-1)
\* moves it, at the last day of a month or a year and at day 1 too.
C19_EventDateIsValid ==
    EventReturned
       => /\ date_is_valid(cfg, ret.value.date.day, ret.value.date.month,
                           ret.value.date.year)
          /\ SameDate(ret.value.date, Steps(cfg, call.date, DayShiftOfCall))

\* C20: after any sequence of adjust_time calls with any signed hours and
\* minutes, from a time in range, the clock has 0 <= hour < hours_in_day and
\* 0 <= minute < minutes_in_hour.
C20_ClockStaysInRange ==
    /\ 0 <= clock.hour
    /\ clock.hour < clock.hours_in_day
    /\ 0 <= clock.minute
    /\ clock.minute < clock.minutes_in_hour

\* adjust_time has been called and the clock of the 5-hour day shows its
\* last minute, 4:06
C20_Witness ==
    /\ call.op = "adjust_time"
    /\ clock = Clock(5, 7, 4, 6)

\* the minutes since the start of the day a Clock shows
MinuteOfDay(k) == k.hour * k.minutes_in_hour + k.minute

\* C21: adjust_time(hours, minutes) adds hours * minutes_in_hour + minutes to
\* the minute of the day, modulo the minutes of a day: the time after the
\* call is the (hour, minute) of that sum, for offsets of more than an hour
\* or a day and for negative offsets too.
C21_AdjustTimeAddsMinutes ==
    Done("adjust_time")
       => LET k == call.before
              total == (MinuteOfDay(k) + call.hours * k.minutes_in_hour
                          + call.minutes)
                       % (k.hours_in_day * k.minutes_in_hour)
          IN clock = Clock(k.hours_in_day, k.minutes_in_hour,
                           total \div k.minutes_in_hour,
                           total % k.minutes_in_hour)

\* adjust_time has been called with minutes that take the short day's clock
\* back more than a day, borrowing from the hour, with positive hours
C21_Witness ==
    /\ Done("adjust_time")
    /\ call.before.hours_in_day = 5
    /\ call.minutes < 0 - 35
    /\ call.hours > 0
    /\ call.before.minute + call.minutes < 0
    /\ clock # call.before

\* the initiative roll a combatant of the TurnManager was added with
RollOf(combatant) ==
    tm.initiative[FirstListWith(tm.initiative, combatant)].roll

\* the position of a combatant among those added
AddedAt(combatant) ==
    CHOOSE i \in 1..Len(call.added) : call.added[i] = combatant

\* a turn has just been yielded to the caller
TurnYielded == call.op = "next" /\ ret.kind = "return" /\ ret.type = "turn"

\* a pass over turn_order has just ended: the generator is back at its while
RoundEnded ==
    tm.turns.pc = "running" /\ tm.turns.at = 0 /\ tm.round_number > 0

\* the combatants seen in the round are in descending order of initiative,
\* those of one initiative in the order they were added; none is seen twice
SeenInTurnOrder ==
    \A i, j \in 1..Len(call.seen) :
       i < j => \/ RollOf(call.seen[i]) > RollOf(call.seen[j])
                \/ /\ RollOf(call.seen[i]) = RollOf(call.seen[j])
                   /\ AddedAt(call.seen[i]) < AddedAt(call.seen[j])

\* C22: with a fixed set of combatants generate_turns yields turns round by
\* round: the first round is 1 and the round number goes up by exactly 1 at
\* each full pass; in a round every combatant is yielded exactly once, in
\* descending order of initiative, combatants of one initiative in the order
\* they were added.
C22_TurnsRoundByRound ==
    /\ [](/\ SeenInTurnOrder
          /\ TurnYielded
               => /\ ret.value.round_number = tm.round_number
                  /\ ret.value.round_number >= 1
                  /\ ret.value.combatant = call.seen[Len(call.seen)]
                  /\ ret.value.turn = RollOf(ret.value.combatant)
          /\ RoundEnded => Elements(call.seen) = Elements(call.added))
    /\ [][tm'.round_number # tm.round_number
            => /\ tm'.round_number = tm.round_number + 1
               /\ call'.seen = <<>>
               /\ tm.round_number > 0
                    => Elements(call.seen) = Elements(call.added)]_vars

\* the third combatant of round 2 has been yielded: two share an initiative
\* and one has a higher one, added last
C22_Witness ==
    /\ TurnYielded
    /\ ret.value.round_number = 2
    /\ Len(call.seen) = 3
    /\ RollOf(call.seen[1]) > RollOf(call.seen[2])
    /\ RollOf(call.seen[2]) = RollOf(call.seen[3])
    /\ call.added[3] = call.seen[1]

\* the places of a combatant in the initiative lists of a TurnManager
PlacesOf(t, combatant) ==
    {p \in (1..Len(t.initiative)) \X (1..Cardinality(Combatants) + 1) :
       /\ p[2] <= Len(t.initiative[p[1]].combatants)
       /\ t.initiative[p[1]].combatants[p[2]] = combatant}

\* C24: after any sequence of add_combatant and remove_combatant calls every
\* combatant is at most once in the initiative lists taken together; adding
\* a combatant that is in the TurnManager and removing one that is not raise
\* and leave the table as it was (and a call that does not raise adds or
\* removes the combatant).
C24_CombatantsUnique ==
    /\ [](\A c \in Combatants : Cardinality(PlacesOf(tm, c)) <= 1)
    /\ [][/\ (call'.op = "add_combatant"
                /\ call'.combatant \in InTurnManager(tm))
             => ret' = Raise("Exception") /\ tm' = tm
          /\ (call'.op = "remove_combatant"
                /\ call'.combatant \notin InTurnManager(tm))
             => ret' = Raise("Exception") /\ tm' = tm
          /\ (call'.op = "add_combatant"
                /\ call'.combatant \notin InTurnManager(tm))
             => /\ ret' = ReturnNone
                /\ InTurnManager(tm') = InTurnManager(tm) \cup {call'.combatant}
          /\ (call'.op = "remove_combatant"
                /\ call'.combatant \in InTurnManager(tm))
             => /\ ret'.kind = "return"
                /\ InTurnManager(tm') = InTurnManager(tm) \ {call'.combatant}
         ]_vars

\* a combatant that is in a table of three combatants and two initiatives
\* has been added again and the call raised
C24_Witness ==
    /\ call.op = "add_combatant"
    /\ ret = Raise("Exception")
    /\ InTurnManager(tm) = Combatants
    /\ Len(tm.initiative) = 2
    /\ Cardinality(PlacesOf(tm, call.combatant)) = 1

\* how many times a combatant was yielded since the round began
TimesSeen(combatant) ==
    Cardinality({i \in 1..Len(call.seen) : call.seen[i] = combatant})

\* C25: when combatants are removed during a round, the one whose turn it is
\* included, every combatant that stays in the TurnManager for the whole
\* round is yielded exactly once in that round, and a combatant is never
\* yielded after it was removed.
C25_RemovalKeepsTheRound ==
    /\ RoundEnded => \A c \in call.stayed : TimesSeen(c) = 1
    /\ TurnYielded => ret.value.combatant \in InTurnManager(tm)

\* C26: once every combatant has been removed, the next() that asks
\* generate_turns for a turn finishes instead of running forever.
C26_NextEndsWhenAllRemoved ==
    (tm.turns.pc = "running" /\ InTurnManager(tm) = {})
       ~> (tm.turns.pc # "running")

\* the monsters named by a defeat command: the names typed that are a
\* monster's, and no character's, when the command is given
NamedMonsters ==
    {call.args[i] : i \in 1..Len(call.args)}
       \cap (Elements(call.combat.monsters) \ Elements(call.combat.characters))

\* C23: the defeat command moves exactly the monsters it names: each is
\* afterwards out of combat.monsters and out of the turn order and in
\* combat.defeated; a name that is nobody's or a player character's leaves
\* monsters, characters, defeated and the turn order as they were.
C23_DefeatMovesNamedMonsters ==
    Done("defeat") =>
       /\ Elements(combat.monsters)
            = Elements(call.combat.monsters) \ NamedMonsters
       /\ Elements(combat.defeated)
            = Elements(call.combat.defeated) \cup NamedMonsters
       /\ combat.characters = call.combat.characters
       /\ combat.has_tm
            => InTurnManager(tm) = InTurnManager(call.tm) \ NamedMonsters

\* adjust_date(1) has been called on the Calendar
SteppedOneDay == Done("adjust_date") /\ ~call.back /\ call.days = 1

\* C27: for every valid current date, after adjust_date(1) the day of year
\* of the new date is that of the old date plus 1 with the year unchanged,
\* or 1 with the year one higher exactly when the old date was the last day
\* of its year (day_of_year = days_in_year).
C27_NextDayOfYear ==
    SteppedOneDay =>
       LET old == day_of_year(cfg, call.before, AsArgs(call.before))
           new == day_of_year(cfg, Cur, AsArgs(Cur))
       IN /\ ret = ReturnNone
          /\ old.type = "int"
          /\ new.type = "int"
          /\ IF old.value = days_in_year(cfg, call.before.year)
               THEN year = call.before.year + 1 /\ new.value = 1
             ELSE year = call.before.year /\ new.value = old.value + 1

\* the first day of the year after a date's
FirstDayAfter(d) == Date(1, cfg.keys[1], d.year + 1)

\* C28: for a fixed valid date_then, days_since_date(date_then, date_now) is
\* strictly increasing in date_now over the dates at or after date_then: a
\* later date gets a greater count, and the first day of the next year gets
\* exactly 1 more than the last day of a year.
C28_DaysSinceStrictlyIncreasing ==
    Done("days_since_date") =>
       /\ ret.kind = "return"
       /\ \A later \in ValidDates(cfg) :
             (NotBefore(cfg, later, call.date_now) /\ later # call.date_now)
                => LET r == days_since_date(cfg, Cur, call.date_then, later)
                   IN r.kind = "return" /\ r.value > ret.value
       /\ (/\ day_of_year(cfg, Cur, AsArgs(call.date_now))
                 = Return("int", days_in_year(cfg, call.date_now.year))
           /\ call.date_now.year + 1 \in Years)
             => days_since_date(cfg, Cur, call.date_then,
                                FirstDayAfter(call.date_now))
                  = Return("int", ret.value + 1)

\* C29: a Combatant whose hit points start within 0..max_hp keeps
\* 0 <= cur_hp <= max_hp through every sequence of damage and heal commands,
\* whatever the amounts: healing never takes cur_hp above max_hp and damage
\* never takes it below 0.
C29_HitPointsInRange ==
    /\ 0 <= target.cur_hp
    /\ target.cur_hp <= target.max_hp

\* a Combatant at its max_hp has been damaged by so much that it is dead:
\* the setter was given a value at or below -max_hp and cur_hp is 0
C29_Witness ==
    /\ call.op = "damage"
    /\ call.cur_hp = target.max_hp
    /\ target.max_hp = MaxHp
    /\ "dead" \in ConditionsOf(target)
    /\ target.cur_hp = 0

\* what is known of a condition: the duration it was set with and the
\* decrement_condition_durations calls since
Known(condition) == call.set[condition][1]

\* the last decrement_condition_durations call reported the condition
Reported(condition) ==
    /\ call.op = "decrement"
    /\ condition \in Elements(ret.value)

\* C30: a condition set with a positive integer duration n is in effect
\* after fewer than n calls of decrement_condition_durations and is removed
\* by exactly the n-th, which reports it in the list it returns; a condition
\* set with the default infinite duration is never removed by a call; each
\* call lowers every finite duration by exactly 1.
C30_ConditionsLastTheirDuration ==
    /\ \A c \in DOMAIN call.set :
          call.set[c] # None =>
             IF Known(c).given = Inf
               THEN c \in ConditionsOf(target) /\ DurationOf(target, c) = Inf
             ELSE IF Known(c).given[1] >= 1
                       /\ Known(c).calls >= Known(c).given[1]
               THEN /\ Known(c).calls = Known(c).given[1]
                    /\ c \notin ConditionsOf(target)
                    /\ Reported(c)
             ELSE /\ c \in ConditionsOf(target)
                  /\ DurationOf(target, c)
                       = Finite(Known(c).given[1] - Known(c).calls)
    /\ call.op = "decrement" =>
          \A c \in Elements(ret.value) :
             /\ call.set[c] # None
             /\ Known(c).given # Inf
             /\ Known(c).calls = Known(c).given[1]

\* the tenth call since a condition was set for 1 minute has removed and
\* reported it, while a condition set without a duration is still in effect
C30_Witness ==
    /\ call.op = "decrement"
    /\ \E c \in ConditionNames :
          /\ call.set[c] # None
          /\ Known(c).given = Finite(10)
          /\ Known(c).calls = 10
          /\ ret.value = <<c>>
    /\ \E c \in ConditionNames :
          /\ call.set[c] # None
          /\ Known(c).given = Inf
          /\ target.conditions = <<[condition |-> c, duration |-> Inf]>>

====
